---------------------------- MODULE Spec2Model ----------------------------
(***************************************************************************)
(* LavaLauncher: the per-seat input state machines (seat.c), the item      *)
(* command table and interaction dispatch (item.c) and the saturating      *)
(* counter (util.c).                                                       *)
(*                                                                         *)
(* Representation of uint32_t.  TLC's integers are 32 bit wide and signed, *)
(* so 2^32 cannot be written.  A uint32_t value u is represented by the    *)
(* integer congruent to u modulo 2^32 that lies in -2^31 .. 2^31 - 1: the  *)
(* values 0, 1, 2 are themselves and 0xFFFFFFFF, 0xFFFFFFFE are -1, -2.    *)
(* On this representation + and - are the machine's wrapping + and - (as   *)
(* long as no result crosses 2^31, which no run here comes near) and the   *)
(* unsigned order is U32Gt below.  A signed int converted with (uint32_t)  *)
(* keeps its representative.                                               *)
(***************************************************************************)
EXTENDS Integers, Sequences, FiniteSets, Bags, TLC

VARIABLES
    counter,         \* SpecCounter: the uint32_t a caller hands to counter_safe_subtract
    counter_before,  \* SpecCounter: its value before the last call (history)
    subtrahend,      \* SpecCounter: the last call's second argument (history)
    pointer,         \* seat->pointer: instance, x, item_instance, click,
                     \* discrete_steps, last_update_time, value, cursor (cursor.type)
    keyboard,        \* seat->keyboard.modifiers
    touchpoints,     \* seat->touch.touchpoints, the wl_list of each seat
    heap,            \* the struct Lava_touchpoint objects allocated and not freed
    item_instances,  \* the bar instance's item instances: indicator, active_indicator,
                     \* dirty, x, y, w, h
    interactions,    \* the item_interaction() calls made by the last handler
    scheduled,       \* whether the last handler called bar_instance_schedule_frame()
    event,           \* history: the last event delivered: handler, seat, argument, place
    touching,        \* history: per seat and touch id, the item instance a contact went
                     \* down on and that has not ended by up, cancel or drifting off it
    pressed_on,      \* history: per seat and button, the item instance hovered when the
                     \* button's last press arrived (NotPressed when it is not held)
    scenario,        \* history: how far the run is into the sequence enter, motion over
                     \* an item, press, motion off it, release by one seat
    commands,        \* SpecCommands: item->commands of one item, head first
    last_add,        \* the last call that adds a command (history)
    context,         \* context.need_keyboard, need_pointer, need_touch, loop, reload
    seat,            \* per seat: whether it is in context.seats (linked) and which of
                     \* keyboard.wl_keyboard, keyboard.context, keyboard.keymap,
                     \* keyboard.state, pointer.wl_pointer, touch.wl_touch are set
    finished,        \* the item instances finish_item_instance has been called on
    rendered,        \* history: per item instance, what its last completed render drew
    cursors,         \* the cursor types seat_pointer_set_cursor can end with: all but
                     \* those whose cursor a cursor theme that loads does not have
    toplevel,        \* whether find_toplevel_with_app_id() finds a live toplevel for
                     \* the item's associated_app_id
    executed,        \* the command executions and toplevel requests made by the
                     \* item_interaction() calls of the last handler
    buffers          \* per item instance: the buffer attached to wl_surface (NULL
                     \* when none is); buffers[2], each in flight with the
                     \* compositor (busy) or not and with what was painted into it,
                     \* and current_buffer

vars == <<counter, counter_before, subtrahend, pointer, keyboard, touchpoints, heap,
          item_instances, interactions, event, touching, pressed_on, scenario,
          commands, last_add, context, seat, finished, rendered, scheduled, cursors,
          toplevel, executed, buffers>>

counterVars == <<counter, counter_before, subtrahend>>
seatVars == <<pointer, keyboard, touchpoints, heap, item_instances, interactions,
              scheduled>>
historyVars == <<event, touching, pressed_on, scenario>>
commandVars == <<commands, last_add, context>>
lifeVars == <<seat, finished, rendered>>
surfaceVars == <<cursors, buffers>>
processVars == <<toplevel, executed>>

-----------------------------------------------------------------------------
(* Bounds of the model.                                                    *)

\* Cap on the press depth seat->pointer.click in either direction.
MaxClick == 2
\* Cap on the number of touchpoint objects ever allocated.
MaxTouchpoints == 2
\* Cap on the length of an item's command list.
MaxCommands == 3
\* The uint32_t samples of SpecCounter are 0 .. MaxSample and 2^32 - MaxSample .. 2^32 - 1.
MaxSample == 6
\* Cap on the magnitude of the scroll accumulator seat->pointer.value, in 2500s.
MaxValue == 10
\* Cap on seat->pointer.discrete_steps.
MaxSteps == 3

-----------------------------------------------------------------------------
(* Program constants.                                                      *)

NULL == 0

Seats == {1, 2}
\* The bar instance has two item instances, both of buttons, at x = 1 and x = 2;
\* x = 0 is a place of the bar with no item.
ItemInstances == {1, 2, 3}
Coords == {0, 1, 2}
TouchIds == {0, 1}

\* enum Interaction_type
INTERACTION_MOUSE_BUTTON == 0
INTERACTION_MOUSE_SCROLL == 1
INTERACTION_TOUCH == 2
INTERACTION_UNIVERSAL == 3

\* linux/input-event-codes.h
BTN_LEFT == 272
BTN_RIGHT == 273
Buttons == {BTN_LEFT, BTN_RIGHT}

\* Modifier bits of seat->keyboard.modifiers.
ALT == 1
ModifierMasks == {0, ALT}

TYPE_BUTTON == 0
TYPE_SPACER == 1

\* enum Lava_cursor_type
CURSOR_NONE == 0
CURSOR_DEFAULT == 1
CURSOR_POINTER == 2
CursorTypes == {CURSOR_DEFAULT, CURSOR_POINTER}

-----------------------------------------------------------------------------
(* util.c                                                                  *)

\* a > b on uint32_t
U32Gt(a, b) == IF (a >= 0) = (b >= 0) THEN a > b ELSE a < 0

\* A subtraction that forgets the guard: what *counter -= subtract alone does.
counter_unsafe_subtract(c, subtract) == c - subtract

\* void counter_safe_subtract (uint32_t *counter, uint32_t subtract): the new *counter
counter_safe_subtract(c, subtract) ==
    IF U32Gt(subtract, c) THEN 0 ELSE c - subtract

U32Samples == (0 .. MaxSample) \cup ((0 - MaxSample) .. -1)

InitCounter ==
    /\ counter \in U32Samples
    /\ counter_before = counter
    /\ subtrahend = 0

\* One call counter_safe_subtract(&counter, n), as long as the result is a sample.
Subtract(n) ==
    /\ counter_safe_subtract(counter, n) \in U32Samples
    /\ counter' = counter_safe_subtract(counter, n)
    /\ counter_before' = counter
    /\ subtrahend' = n


-----------------------------------------------------------------------------
(* item.c: item_interaction, as far as the seat's handlers see it          *)

\* The item of an item instance (instance->item): each instance shows its own item.
ItemOf(i) == i
\* item->type: the bar shows two buttons and, behind them, a spacer.
ItemType(item) == IF item = 3 THEN TYPE_SPACER ELSE TYPE_BUTTON

\* One call item_interaction(item, instance, seat, type, modifiers, special).
Interaction(item, s, type, modifiers, special) ==
    [item |-> item, seat |-> s, type |-> type, modifiers |-> modifiers,
     special |-> special]

-----------------------------------------------------------------------------
(* bar.c: the item instance at a place of the bar instance                 *)

bar_instance_get_item_instance_from_coords(x) ==
    IF x \in ItemInstances THEN x ELSE NULL

-----------------------------------------------------------------------------
(* seat.c: touchpoints                                                     *)

Touchpoint(id, i) == [id |-> id, item_instance |-> i]
HeapObject(s, tp) == [seat |-> s, id |-> tp.id, item_instance |-> tp.item_instance]

\* create_touchpoint: the touchpoint is allocated and filled in and the item
\* instance's active indicator raised.  The function never links the new
\* touchpoint into seat->touch.touchpoints (it has no wl_list_insert).
create_touchpoint(s, id, i) ==
    /\ heap' = heap (+) SetToBag({HeapObject(s, Touchpoint(id, i))})
    /\ item_instances' = [item_instances EXCEPT ![i].active_indicator = @ + 1,
                                                ![i].dirty = TRUE]
    /\ scheduled' = TRUE
    /\ UNCHANGED touchpoints

\* The sequence without its k-th element (wl_list_remove).
RemoveAt(seq, k) == [j \in 1 .. (Len(seq) - 1) |-> IF j < k THEN seq[j] ELSE seq[j + 1]]

\* The item instances after destroy_touchpoint of a touchpoint that started on i.
DestroyedOn(ii, i) ==
    [ii EXCEPT ![i].active_indicator = counter_safe_subtract(@, 1), ![i].dirty = TRUE]

\* destroy_touchpoint of the k-th touchpoint of the seat's list
destroy_touchpoint(s, k) ==
    LET tp == touchpoints[s][k] IN
    /\ item_instances' = DestroyedOn(item_instances, tp.item_instance)
    /\ touchpoints' = [touchpoints EXCEPT ![s] = RemoveAt(@, k)]
    /\ scheduled' = TRUE
    /\ heap' = heap (-) SetToBag({HeapObject(s, tp)})

RECURSIVE DestroyedAll(_, _)
DestroyedAll(ii, list) ==
    IF list = <<>> THEN ii
    ELSE DestroyedAll(DestroyedOn(ii, Head(list).item_instance), Tail(list))

RECURSIVE FreedAll(_, _, _)
FreedAll(h, s, list) ==
    IF list = <<>> THEN h
    ELSE FreedAll(h (-) SetToBag({HeapObject(s, Head(list))}), s, Tail(list))

\* destroy_all_touchpoints: destroy_touchpoint of every touchpoint of the list
destroy_all_touchpoints(s) ==
    /\ item_instances' = DestroyedAll(item_instances, touchpoints[s])
    /\ heap' = FreedAll(heap, s, touchpoints[s])
    /\ scheduled' = (touchpoints[s] # <<>>)
    /\ touchpoints' = [touchpoints EXCEPT ![s] = <<>>]

\* touchpoint_from_id: the place in the list of the first touchpoint with the id,
\* NULL when there is none
touchpoint_from_id(s, id) ==
    LET found == {k \in 1 .. Len(touchpoints[s]) : touchpoints[s][k].id = id} IN
    IF found = {} THEN NULL ELSE CHOOSE k \in found : \A j \in found : k <= j

-----------------------------------------------------------------------------
(* seat.c: touch                                                           *)

touch_handle_up(s, id) ==
    LET k == touchpoint_from_id(s, id) IN
    /\ IF k = NULL
       THEN /\ interactions' = <<>>
            /\ scheduled' = FALSE
            /\ UNCHANGED <<touchpoints, heap, item_instances>>
       ELSE /\ interactions' = <<Interaction(ItemOf(touchpoints[s][k].item_instance), s,
                                             INTERACTION_TOUCH, keyboard[s], 0)>>
            /\ destroy_touchpoint(s, k)
    /\ UNCHANGED <<pointer, keyboard>>

touch_handle_down(s, id, x) ==
    LET item_instance == bar_instance_get_item_instance_from_coords(x) IN
    /\ BagCardinality(heap) < MaxTouchpoints
    /\ IF item_instance = NULL
       THEN UNCHANGED <<touchpoints, heap, item_instances>> /\ scheduled' = FALSE
       ELSE create_touchpoint(s, id, item_instance)
    /\ interactions' = <<>>
    /\ UNCHANGED <<pointer, keyboard>>

touch_handle_motion(s, id, x) ==
    LET k == touchpoint_from_id(s, id)
        item_instance == bar_instance_get_item_instance_from_coords(x)
    IN
    /\ IF k = NULL
       THEN UNCHANGED <<touchpoints, heap, item_instances>> /\ scheduled' = FALSE
       ELSE IF item_instance = NULL
            THEN destroy_touchpoint(s, k)
            ELSE IF item_instance # touchpoints[s][k].item_instance
                 THEN destroy_touchpoint(s, k)
                 ELSE UNCHANGED <<touchpoints, heap, item_instances>>
                          /\ scheduled' = FALSE
    /\ interactions' = <<>>
    /\ UNCHANGED <<pointer, keyboard>>

touch_handle_cancel(s) ==
    /\ destroy_all_touchpoints(s)
    /\ interactions' = <<>>
    /\ UNCHANGED <<pointer, keyboard>>

-----------------------------------------------------------------------------
(* seat.c: keyboard                                                        *)

\* keyboard_handle_modifiers: the mask is rebuilt from the xkb state, which the
\* event's depressed, latched and locked modifiers have just updated.
keyboard_handle_modifiers(s, mask) ==
    /\ keyboard' = [keyboard EXCEPT ![s] = mask]
    /\ interactions' = <<>>
    /\ scheduled' = FALSE
    /\ UNCHANGED <<pointer, touchpoints, heap, item_instances>>

-----------------------------------------------------------------------------
(* seat.c: pointer                                                         *)

\* A pointer_process_motion that moves the hover and leaves the press depth behind.
MotionProcessedHoverOnly(ii, old_instance, new_instance, click) ==
    LET left == IF old_instance # NULL
                THEN [ii EXCEPT ![old_instance].indicator = counter_safe_subtract(@, 1),
                                ![old_instance].dirty = TRUE]
                ELSE ii
    IN  IF old_instance # NULL /\ new_instance = old_instance THEN ii
        ELSE IF new_instance = NULL THEN left
        ELSE [left EXCEPT ![new_instance].indicator = @ + 1,
                          ![new_instance].dirty = TRUE]

\* The item instances after pointer_process_motion finds the pointer, at press
\* depth click, on item instance new_instance and no longer on old_instance.
MotionProcessed(ii, old_instance, new_instance, click) ==
    LET left == IF old_instance # NULL
                THEN [ii EXCEPT ![old_instance].indicator = counter_safe_subtract(@, 1),
                                ![old_instance].active_indicator =
                                    counter_safe_subtract(@, click),
                                ![old_instance].dirty = TRUE]
                ELSE ii
    IN  IF old_instance # NULL /\ new_instance = old_instance THEN ii
        ELSE IF new_instance = NULL THEN left
        ELSE [left EXCEPT ![new_instance].indicator = @ + 1,
                          ![new_instance].active_indicator = @ + click,
                          ![new_instance].dirty = TRUE]

\* seat_pointer_unset_cursor: cursor.type after it
seat_pointer_unset_cursor(type) == CURSOR_NONE

\* seat_pointer_set_cursor: cursor.type after it, for a seat whose cursor.type is
\* current.  The type is stored before the theme is loaded and stays when the
\* theme cannot be loaded; it is unset again when the theme has no such cursor.
seat_pointer_set_cursor(current, type) ==
    IF type = current THEN current
    ELSE IF type = CURSOR_NONE THEN seat_pointer_unset_cursor(current)
    ELSE IF type \in cursors THEN type
    ELSE seat_pointer_unset_cursor(type)

\* A pointer_process_motion that selects the pointer cursor over every item.
MotionCursorAnyItem(p, old_instance, new_instance) ==
    IF old_instance # NULL /\ new_instance = old_instance THEN p.cursor
    ELSE IF new_instance = NULL THEN seat_pointer_set_cursor(p.cursor, CURSOR_DEFAULT)
    ELSE seat_pointer_set_cursor(p.cursor, CURSOR_POINTER)

\* pointer_process_motion: cursor.type after it
MotionCursor(p, old_instance, new_instance) ==
    IF old_instance # NULL /\ new_instance = old_instance THEN p.cursor
    ELSE IF new_instance = NULL THEN seat_pointer_set_cursor(p.cursor, CURSOR_DEFAULT)
    ELSE seat_pointer_set_cursor(p.cursor,
             IF ItemType(ItemOf(new_instance)) = TYPE_BUTTON
             THEN CURSOR_POINTER ELSE CURSOR_DEFAULT)

\* A pointer_process_motion that asks for a frame whenever it runs.
MotionNeedsFrameAlways(old_instance, new_instance) == TRUE

\* pointer_process_motion: need_frame where it ends
MotionNeedsFrame(old_instance, new_instance) ==
    IF old_instance # NULL /\ new_instance = old_instance THEN FALSE
    ELSE old_instance # NULL \/ new_instance # NULL

\* pointer_process_motion on the seat's pointer p, whose position the caller has set
pointer_process_motion(s, p) ==
    LET old_instance == p.item_instance
        new_instance == bar_instance_get_item_instance_from_coords(p.x)
    IN
    /\ pointer' = [pointer EXCEPT ![s] =
                       [p EXCEPT !.item_instance = new_instance,
                                 !.cursor = MotionCursor(p, old_instance, new_instance)]]
    /\ item_instances' = MotionProcessed(item_instances, old_instance, new_instance,
                                         p.click)
    /\ scheduled' = MotionNeedsFrame(old_instance, new_instance)

\* pointer_handle_enter: the compositor sends enter to a seat whose pointer is on
\* none of the bar's surfaces.
pointer_handle_enter(s, x) ==
    /\ pointer[s].instance = NULL
    /\ pointer_process_motion(s, [pointer[s] EXCEPT !.instance = 1, !.x = x])
    /\ interactions' = <<>>
    /\ UNCHANGED <<keyboard, touchpoints, heap>>

\* pointer_handle_motion: sent while the pointer is on the bar
pointer_handle_motion(s, x) ==
    /\ pointer[s].instance # NULL
    /\ pointer_process_motion(s, [pointer[s] EXCEPT !.x = x])
    /\ interactions' = <<>>
    /\ UNCHANGED <<keyboard, touchpoints, heap>>

\* A leave that forgets the item instance and keeps the press depth.
pointer_handle_leave_keeps_click(s) ==
    LET p == pointer[s] IN
    /\ p.instance # NULL
    /\ item_instances' =
           IF p.item_instance # NULL
           THEN [item_instances EXCEPT
                    ![p.item_instance].indicator = counter_safe_subtract(@, 1),
                    ![p.item_instance].active_indicator =
                        counter_safe_subtract(@, p.click),
                    ![p.item_instance].dirty = TRUE]
           ELSE item_instances
    /\ pointer' = [pointer EXCEPT ![s].x = 0, ![s].instance = NULL,
                                  ![s].item_instance = NULL,
                                  ![s].cursor = seat_pointer_unset_cursor(@)]
    /\ scheduled' = TRUE
    /\ interactions' = <<>>
    /\ UNCHANGED <<keyboard, touchpoints, heap>>

\* A leave that drops the scroll that has not been dispatched.
pointer_handle_leave_flushing(s) ==
    LET p == pointer[s] IN
    /\ p.instance # NULL
    /\ item_instances' =
           IF p.item_instance # NULL
           THEN [item_instances EXCEPT
                    ![p.item_instance].indicator = counter_safe_subtract(@, 1),
                    ![p.item_instance].active_indicator =
                        counter_safe_subtract(@, p.click),
                    ![p.item_instance].dirty = TRUE]
           ELSE item_instances
    /\ pointer' = [pointer EXCEPT ![s].x = 0, ![s].instance = NULL,
                                  ![s].item_instance = NULL, ![s].click = 0,
                                  ![s].discrete_steps = 0, ![s].value = 0,
                                  ![s].cursor = seat_pointer_unset_cursor(@)]
    /\ scheduled' = TRUE
    /\ interactions' = <<>>
    /\ UNCHANGED <<keyboard, touchpoints, heap>>

\* pointer_handle_leave: sent while the pointer is on the bar
pointer_handle_leave(s) ==
    LET p == pointer[s] IN
    /\ p.instance # NULL
    /\ item_instances' =
           IF p.item_instance # NULL
           THEN [item_instances EXCEPT
                    ![p.item_instance].indicator = counter_safe_subtract(@, 1),
                    ![p.item_instance].active_indicator =
                        counter_safe_subtract(@, p.click),
                    ![p.item_instance].dirty = TRUE]
           ELSE item_instances
    /\ pointer' = [pointer EXCEPT ![s].x = 0, ![s].instance = NULL,
                                  ![s].item_instance = NULL, ![s].click = 0,
                                  ![s].cursor = seat_pointer_unset_cursor(@)]
    /\ scheduled' = TRUE
    /\ interactions' = <<>>
    /\ UNCHANGED <<keyboard, touchpoints, heap>>

\* A press that raises the counters and asks for no frame.
pointer_handle_button_pressed_silently(s, button) ==
    LET p == pointer[s] IN
    /\ p.click < MaxClick
    /\ IF p.instance = NULL
       THEN UNCHANGED <<pointer, item_instances>>
       ELSE /\ pointer' = [pointer EXCEPT ![s].click = @ + 1]
            /\ item_instances' =
                   IF p.item_instance = NULL THEN item_instances
                   ELSE [item_instances EXCEPT
                            ![p.item_instance].active_indicator = @ + 1,
                            ![p.item_instance].dirty = TRUE]
    /\ scheduled' = FALSE
    /\ interactions' = <<>>
    /\ UNCHANGED <<keyboard, touchpoints, heap>>

\* pointer_handle_button with button_state WL_POINTER_BUTTON_STATE_PRESSED
pointer_handle_button_pressed(s, button) ==
    LET p == pointer[s] IN
    /\ p.click < MaxClick
    /\ IF p.instance = NULL
       THEN UNCHANGED <<pointer, item_instances>>
       ELSE /\ pointer' = [pointer EXCEPT ![s].click = @ + 1]
            /\ item_instances' =
                   IF p.item_instance = NULL THEN item_instances
                   ELSE [item_instances EXCEPT
                            ![p.item_instance].active_indicator = @ + 1,
                            ![p.item_instance].dirty = TRUE]
    /\ scheduled' = (p.instance # NULL /\ p.item_instance # NULL)
    /\ interactions' = <<>>
    /\ UNCHANGED <<keyboard, touchpoints, heap>>

\* A release that dispatches without the keyboard's modifiers.
pointer_handle_button_released_unmodified(s, button) ==
    LET p == pointer[s] IN
    /\ p.click > 0 - MaxClick
    /\ IF p.instance = NULL
       THEN /\ interactions' = <<>>
            /\ UNCHANGED <<pointer, item_instances>>
       ELSE /\ pointer' = [pointer EXCEPT ![s].click = @ - 1]
            /\ IF p.item_instance = NULL
               THEN /\ interactions' = <<>>
                    /\ UNCHANGED item_instances
               ELSE /\ item_instances' =
                           [item_instances EXCEPT
                               ![p.item_instance].active_indicator =
                                   counter_safe_subtract(@, 1),
                               ![p.item_instance].dirty = TRUE]
                    /\ interactions' =
                           <<Interaction(ItemOf(p.item_instance), s,
                                         INTERACTION_MOUSE_BUTTON, 0, button)>>
    /\ scheduled' = (p.instance # NULL /\ p.item_instance # NULL)
    /\ UNCHANGED <<keyboard, touchpoints, heap>>

\* pointer_handle_button with button_state WL_POINTER_BUTTON_STATE_RELEASED
pointer_handle_button_released(s, button) ==
    LET p == pointer[s] IN
    /\ p.click > 0 - MaxClick
    /\ IF p.instance = NULL
       THEN /\ interactions' = <<>>
            /\ UNCHANGED <<pointer, item_instances>>
       ELSE /\ pointer' = [pointer EXCEPT ![s].click = @ - 1]
            /\ IF p.item_instance = NULL
               THEN /\ interactions' = <<>>
                    /\ UNCHANGED item_instances
               ELSE /\ item_instances' =
                           [item_instances EXCEPT
                               ![p.item_instance].active_indicator =
                                   counter_safe_subtract(@, 1),
                               ![p.item_instance].dirty = TRUE]
                    /\ interactions' =
                           <<Interaction(ItemOf(p.item_instance), s,
                                         INTERACTION_MOUSE_BUTTON, keyboard[s], button)>>
    /\ scheduled' = (p.instance # NULL /\ p.item_instance # NULL)
    /\ UNCHANGED <<keyboard, touchpoints, heap>>

-----------------------------------------------------------------------------
(* seat.c: pointer scrolling                                               *)

CONTINUOUS_SCROLL_THRESHHOLD == 10000
CONTINUOUS_SCROLL_TIMEOUT == 1000
WL_POINTER_AXIS_VERTICAL_SCROLL == 0
Axes == {WL_POINTER_AXIS_VERTICAL_SCROLL, 1}

\* The values, times and steps the compositor sends with axis events.
AxisValues == {-12500, -7500, 100, 7500, 12500}
\* The values of seat->pointer.value the model follows.
ValueSamples == {2500 * k : k \in (0 - MaxValue) .. MaxValue} \cup {100, 200, 300}
AxisTimes == {0, 2000}
AxisSteps == {-1, 1, 2}

abs(v) == IF v < 0 THEN 0 - v ELSE v

\* wl_fixed_to_int: the quotient by 256, rounded towards 0 as C's / does
wl_fixed_to_int(f) == IF f >= 0 THEN f \div 256 ELSE 0 - ((0 - f) \div 256)

\* pointer_handle_axis: the seat's pointer after it
AxisAccumulated(p, time, axis, value) ==
    LET stale == /\ p.discrete_steps = 0
                 /\ U32Gt(time - p.last_update_time, CONTINUOUS_SCROLL_TIMEOUT)
    IN  IF axis # WL_POINTER_AXIS_VERTICAL_SCROLL \/ p.instance = NULL THEN p
        ELSE [p EXCEPT !.value = (IF stale THEN 0 ELSE @) + value,
                       !.last_update_time = time]

\* A pointer_handle_axis that drops the old value after the timeout, whatever
\* the discrete steps are.
pointer_handle_axis_timeout_only(s, time, axis, value) ==
    LET p == pointer[s]
        stale == U32Gt(time - p.last_update_time, CONTINUOUS_SCROLL_TIMEOUT)
        sum == (IF stale THEN 0 ELSE p.value) + value
    IN
    /\ sum \in ValueSamples
    /\ pointer' = IF axis # WL_POINTER_AXIS_VERTICAL_SCROLL \/ p.instance = NULL
                  THEN pointer
                  ELSE [pointer EXCEPT ![s].value = sum, ![s].last_update_time = time]
    /\ interactions' = <<>>
    /\ scheduled' = FALSE
    /\ UNCHANGED <<keyboard, touchpoints, heap, item_instances>>

\* pointer_handle_axis
pointer_handle_axis(s, time, axis, value) ==
    LET p == pointer[s] IN
    /\ (IF p.discrete_steps = 0
            /\ U32Gt(time - p.last_update_time, CONTINUOUS_SCROLL_TIMEOUT)
        THEN 0 ELSE p.value) + value \in ValueSamples
    /\ pointer' = [pointer EXCEPT ![s] = AxisAccumulated(@, time, axis, value)]
    /\ interactions' = <<>>
    /\ scheduled' = FALSE
    /\ UNCHANGED <<keyboard, touchpoints, heap, item_instances>>

\* A pointer_handle_axis_discrete that does not ask whether the pointer is on a bar.
pointer_handle_axis_discrete_anywhere(s, axis, steps) ==
    LET p == pointer[s] IN
    /\ p.discrete_steps + abs(steps) <= MaxSteps
    /\ pointer' = IF axis # WL_POINTER_AXIS_VERTICAL_SCROLL
                  THEN pointer
                  ELSE [pointer EXCEPT ![s].discrete_steps = @ + abs(steps)]
    /\ interactions' = <<>>
    /\ scheduled' = FALSE
    /\ UNCHANGED <<keyboard, touchpoints, heap, item_instances>>

\* A pointer_handle_axis_discrete that dispatches its steps at once.
pointer_handle_axis_discrete_dispatching(s, axis, steps) ==
    LET p == pointer[s] IN
    /\ p.discrete_steps + abs(steps) <= MaxSteps
    /\ UNCHANGED pointer
    /\ interactions' =
           IF axis # WL_POINTER_AXIS_VERTICAL_SCROLL \/ p.instance = NULL
                  \/ p.item_instance = NULL
           THEN <<>>
           ELSE [k \in 1 .. abs(steps) |->
                    Interaction(ItemOf(p.item_instance), s, INTERACTION_MOUSE_SCROLL,
                                keyboard[s], IF steps > 0 THEN 0 ELSE 1)]
    /\ scheduled' = FALSE
    /\ UNCHANGED <<keyboard, touchpoints, heap, item_instances>>

\* pointer_handle_axis_discrete: the seat's pointer after it
DiscreteAccumulated(p, axis, steps) ==
    IF axis # WL_POINTER_AXIS_VERTICAL_SCROLL \/ p.instance = NULL THEN p
    ELSE [p EXCEPT !.discrete_steps = @ + abs(steps)]

\* pointer_handle_axis_discrete
pointer_handle_axis_discrete(s, axis, steps) ==
    LET p == pointer[s] IN
    /\ p.discrete_steps + abs(steps) <= MaxSteps
    /\ pointer' = [pointer EXCEPT ![s] = DiscreteAccumulated(@, axis, steps)]
    /\ interactions' = <<>>
    /\ scheduled' = FALSE
    /\ UNCHANGED <<keyboard, touchpoints, heap, item_instances>>

\* pointer_handle_frame: direction, 0 == down, 1 == up
ScrollDirection(value) == IF wl_fixed_to_int(value) > 0 THEN 0 ELSE 1

\* pointer_handle_frame: value_change
ValueChange(value) ==
    IF wl_fixed_to_int(value) > 0 THEN 0 - CONTINUOUS_SCROLL_THRESHHOLD
    ELSE CONTINUOUS_SCROLL_THRESHHOLD

\* A loop that goes on while the threshold is reached, not only exceeded.
RECURSIVE ContinuousScrollsFromThreshold(_, _)
ContinuousScrollsFromThreshold(value, value_change) ==
    IF abs(value) >= CONTINUOUS_SCROLL_THRESHHOLD
    THEN 1 + ContinuousScrollsFromThreshold(value + value_change, value_change)
    ELSE 0

\* pointer_handle_frame: the number of rounds of its while loop
RECURSIVE ContinuousScrolls(_, _)
ContinuousScrolls(value, value_change) ==
    IF abs(value) > CONTINUOUS_SCROLL_THRESHHOLD
    THEN 1 + ContinuousScrolls(value + value_change, value_change)
    ELSE 0

\* A frame that looks at the accumulated value only.
FrameScrollsByValue(p) == ContinuousScrolls(p.value, ValueChange(p.value))

\* pointer_handle_frame: the number of calls of item_interaction
FrameScrolls(p) ==
    IF p.discrete_steps # 0 THEN p.discrete_steps
    ELSE ContinuousScrolls(p.value, ValueChange(p.value))

\* pointer_handle_frame: the seat's pointer after it
FrameFlushed(p) ==
    IF p.instance = NULL \/ p.item_instance = NULL THEN p
    ELSE IF p.discrete_steps # 0 THEN [p EXCEPT !.discrete_steps = 0, !.value = 0]
    ELSE [p EXCEPT !.value = @ + FrameScrolls(p) * ValueChange(p.value)]

\* pointer_handle_frame
pointer_handle_frame(s) ==
    LET p == pointer[s] IN
    /\ interactions' =
           IF p.instance = NULL \/ p.item_instance = NULL THEN <<>>
           ELSE [k \in 1 .. FrameScrolls(p) |->
                    Interaction(ItemOf(p.item_instance), s, INTERACTION_MOUSE_SCROLL,
                                keyboard[s], ScrollDirection(p.value))]
    /\ pointer' = [pointer EXCEPT ![s] = FrameFlushed(@)]
    /\ scheduled' = FALSE
    /\ UNCHANGED <<keyboard, touchpoints, heap, item_instances>>

-----------------------------------------------------------------------------
(* item.c: item commands.  Strings are sequences of characters; the list   *)
(* item->commands is a sequence with the head of the wl_list first.        *)

\* enum Meta_action
META_ACTION_NONE == 0
META_ACTION_TOPLEVEL_ACTIVATE == 1
META_ACTION_TOPLEVEL_CLOSE == 2
META_ACTION_RELOAD == 3
META_ACTION_EXIT == 4

\* A command string that is NULL (cmd->command = NULL).
NoString == <<"NULL">>

Min(a, b) == IF a < b THEN a ELSE b

\* util.c, string_starts_with: strncmp over the shorter of the two lengths
string_starts_with(str, prefix) ==
    LET min_len == Min(Len(str), Len(prefix)) IN
    SubSeq(prefix, 1, min_len) = SubSeq(str, 1, min_len)

\* The array actions[] of item_add_command, in its order.
MetaActions ==
    << [name |-> <<"@", "t", "o", "p", "l", "e", "v", "e", "l", "-",
                   "a", "c", "t", "i", "v", "a", "t", "e">>,
        action |-> META_ACTION_TOPLEVEL_ACTIVATE],
       [name |-> <<"@", "t", "o", "p", "l", "e", "v", "e", "l", "-",
                   "c", "l", "o", "s", "e">>,
        action |-> META_ACTION_TOPLEVEL_CLOSE],
       [name |-> <<"@", "r", "e", "l", "o", "a", "d">>, action |-> META_ACTION_RELOAD],
       [name |-> <<"@", "e", "x", "i", "t">>, action |-> META_ACTION_EXIT] >>

\* What strdup may read at an address behind the end of a string.
Garbage == {<<>>, <<"?">>}

\* The exact match of find_item_command's condition
ExactMatch(cmd, type, modifiers, special) ==
    cmd.type = type /\ cmd.modifiers = modifiers /\ cmd.special = special

\* A find_item_command whose universal rule does not ask for the type.
find_item_command_any_type(cmds, type, modifiers, special, allow_universal) ==
    LET found == {k \in 1 .. Len(cmds) :
                     \/ ExactMatch(cmds[k], type, modifiers, special)
                     \/ (allow_universal /\ cmds[k].type = INTERACTION_UNIVERSAL)}
    IN  IF found = {} THEN NULL ELSE CHOOSE k \in found : \A j \in found : k <= j

\* find_item_command: the place in the list of the first command that matches,
\* NULL when none does
find_item_command(cmds, type, modifiers, special, allow_universal) ==
    LET found == {k \in 1 .. Len(cmds) :
                     \/ ExactMatch(cmds[k], type, modifiers, special)
                     \/ (allow_universal /\ cmds[k].type = INTERACTION_UNIVERSAL
                         /\ type # INTERACTION_MOUSE_SCROLL)}
    IN  IF found = {} THEN NULL ELSE CHOOSE k \in found : \A j \in found : k <= j

\* The meta action and command string item_add_command stores for a command
\* string: the possible outcomes, as [action, command].  The first name of
\* actions[] that string_starts_with accepts decides; when the string is shorter
\* than that name, command + strlen(name) lies behind the string's end.
ParsedCommands(command) ==
    LET hits == {i \in 1 .. Len(MetaActions) :
                    string_starts_with(command, MetaActions[i].name)}
        first == CHOOSE i \in hits : \A j \in hits : i <= j
        name == MetaActions[first].name
    IN  IF command # <<>> /\ Head(command) = "@" /\ hits # {}
        THEN IF Len(command) = Len(name)
             THEN {[action |-> MetaActions[first].action, command |-> NoString]}
             ELSE IF Len(command) > Len(name)
                  THEN {[action |-> MetaActions[first].action,
                         command |-> SubSeq(command, Len(name) + 1, Len(command))]}
                  ELSE {[action |-> MetaActions[first].action, command |-> g] :
                           g \in Garbage}
        ELSE {[action |-> META_ACTION_NONE, command |-> command]}

\* An item_add_command that keeps the command string of the command it finds
\* when the new string has none.
item_add_command_keeps_string(cmds, command, type, modifiers, special) ==
    LET k == find_item_command(cmds, type, modifiers, special, FALSE)
        fresh == [type |-> type, modifiers |-> modifiers, special |-> special,
                  action |-> META_ACTION_NONE, command |-> NoString]
        list == IF k = NULL THEN <<fresh>> \o cmds ELSE cmds
        at == IF k = NULL THEN 1 ELSE k
    IN  {[list EXCEPT ![at].action = parsed.action,
                      ![at].command = IF parsed.command = NoString THEN @
                                      ELSE parsed.command] :
            parsed \in ParsedCommands(command)}

\* An item_add_command without its lookup: every call allocates a new command.
item_add_command_always_new(cmds, command, type, modifiers, special) ==
    LET fresh == [type |-> type, modifiers |-> modifiers, special |-> special,
                  action |-> META_ACTION_NONE, command |-> NoString]
    IN  {[(<<fresh>> \o cmds) EXCEPT ![1].action = parsed.action,
                                     ![1].command = parsed.command] :
            parsed \in ParsedCommands(command)}

\* item_add_command: the lists it may leave
item_add_command(cmds, command, type, modifiers, special) ==
    LET k == find_item_command(cmds, type, modifiers, special, FALSE)
        fresh == [type |-> type, modifiers |-> modifiers, special |-> special,
                  action |-> META_ACTION_NONE, command |-> NoString]
        list == IF k = NULL THEN <<fresh>> \o cmds ELSE cmds
        at == IF k = NULL THEN 1 ELSE k
    IN  {[list EXCEPT ![at].action = parsed.action, ![at].command = parsed.command] :
            parsed \in ParsedCommands(command)}

\* The binds and command strings the configuration hands to item_add_command.
Binds ==
    {[type |-> INTERACTION_MOUSE_BUTTON, modifiers |-> 0, special |-> BTN_LEFT],
     [type |-> INTERACTION_MOUSE_BUTTON, modifiers |-> 0, special |-> BTN_RIGHT],
     [type |-> INTERACTION_MOUSE_BUTTON, modifiers |-> ALT, special |-> BTN_LEFT],
     [type |-> INTERACTION_MOUSE_SCROLL, modifiers |-> 0, special |-> 1],
     [type |-> INTERACTION_TOUCH, modifiers |-> 0, special |-> 0],
     [type |-> INTERACTION_UNIVERSAL, modifiers |-> 0, special |-> 0]}

CommandStrings ==
    {<<"l", "s">>, <<"@", "e", "x", "i", "t">>,
     <<"@", "r", "e", "l", "o", "a", "d", " ", "f">>}

\* The history of a call that reached item_add_command with the bind string bind.
Added(k, bind) ==
    [replaced |-> k # NULL, at |-> IF k = NULL THEN 1 ELSE k,
     old |-> IF k = NULL THEN NoString ELSE commands[k].command,
     bind |-> bind, ok |-> TRUE]

\* One call of item_add_command.
AddCommand(bind, command) ==
    LET k == find_item_command(commands, bind.type, bind.modifiers, bind.special, FALSE)
    IN
    /\ k # NULL \/ Len(commands) < MaxCommands
    /\ commands' \in item_add_command(commands, command, bind.type, bind.modifiers,
                                      bind.special)
    /\ last_add' = Added(k, <<>>)
    /\ UNCHANGED context

-----------------------------------------------------------------------------
(* item.c: bind strings                                                    *)

SHIFT == 2

\* An assignment in the place of the |=.
BitOverwrite(modifiers, value) == value

\* modifiers | value, for a value of one bit
BitOr(modifiers, value) ==
    IF (modifiers \div value) % 2 = 1 THEN modifiers ELSE modifiers + value

\* The array tokens[] of parse_bind_token_buffer: of its mouse buttons the left
\* and the right one, of its modifiers alt and shift.
Tokens ==
    {[name |-> <<"m", "o", "u", "s", "e", "-", "l", "e", "f", "t">>,
      type |-> INTERACTION_MOUSE_BUTTON,
      modifier |-> FALSE, value |-> BTN_LEFT],
     [name |-> <<"m", "o", "u", "s", "e", "-", "r", "i", "g", "h", "t">>,
      type |-> INTERACTION_MOUSE_BUTTON,
      modifier |-> FALSE, value |-> BTN_RIGHT],
     [name |-> <<"s", "c", "r", "o", "l", "l", "-", "u", "p">>,
      type |-> INTERACTION_MOUSE_SCROLL,
      modifier |-> FALSE, value |-> 1],
     [name |-> <<"s", "c", "r", "o", "l", "l", "-", "d", "o", "w", "n">>,
      type |-> INTERACTION_MOUSE_SCROLL,
      modifier |-> FALSE, value |-> 0],
     [name |-> <<"t", "o", "u", "c", "h">>,
      type |-> INTERACTION_TOUCH, modifier |-> FALSE,
      value |-> 0],
     [name |-> <<"a", "l", "t">>, type |-> INTERACTION_UNIVERSAL, modifier |-> TRUE,
      value |-> ALT],
     [name |-> <<"s", "h", "i", "f", "t">>, type |-> INTERACTION_UNIVERSAL,
      modifier |-> TRUE, value |-> SHIFT]}

\* The locals of button_item_command_from_string when it starts; failed is set
\* where the function goes to error.
ParseStart(c) ==
    [buffer |-> <<>>, type_defined |-> FALSE, type |-> INTERACTION_UNIVERSAL,
     modifiers |-> 0, special |-> 0, start |-> FALSE, stop |-> FALSE,
     failed |-> FALSE, need |-> c]

\* A parse_bind_token_buffer in which a later device token replaces an earlier one.
parse_bind_token_buffer_last_wins(st) ==
    LET hits == {tok \in Tokens : tok.name = st.buffer}
        tok == CHOOSE tok \in hits : TRUE
    IN  IF hits = {} THEN [st EXCEPT !.failed = TRUE]
        ELSE IF tok.modifier
             THEN [st EXCEPT !.modifiers = BitOr(@, tok.value),
                             !.need.need_keyboard = TRUE, !.buffer = <<>>]
             ELSE [st EXCEPT !.type_defined = TRUE, !.type = tok.type,
                             !.special = tok.value, !.buffer = <<>>,
                             !.need.need_pointer =
                                 @ \/ tok.type \in {INTERACTION_MOUSE_BUTTON,
                                                    INTERACTION_MOUSE_SCROLL},
                             !.need.need_touch = @ \/ tok.type = INTERACTION_TOUCH]

\* parse_bind_token_buffer: the locals after the token in the buffer is looked up
parse_bind_token_buffer(st) ==
    LET hits == {tok \in Tokens : tok.name = st.buffer}
        tok == CHOOSE tok \in hits : TRUE
    IN  IF hits = {} THEN [st EXCEPT !.failed = TRUE]
        ELSE IF tok.modifier
             THEN [st EXCEPT !.modifiers = BitOr(@, tok.value),
                             !.need.need_keyboard = TRUE, !.buffer = <<>>]
             ELSE IF st.type_defined THEN [st EXCEPT !.failed = TRUE]
             ELSE [st EXCEPT !.type_defined = TRUE, !.type = tok.type,
                             !.special = tok.value, !.buffer = <<>>,
                             !.need.need_pointer =
                                 @ \/ tok.type \in {INTERACTION_MOUSE_BUTTON,
                                                    INTERACTION_MOUSE_SCROLL},
                             !.need.need_touch = @ \/ tok.type = INTERACTION_TOUCH]

buffer_size == 20

\* parse_token_buffer_add_char
parse_token_buffer_add_char(st, size, ch) ==
    IF Len(st.buffer) > size - 2 THEN [st EXCEPT !.failed = TRUE]
    ELSE [st EXCEPT !.buffer = Append(@, ch)]

\* button_item_command_from_string: one round of its loop, for the character ch
ParseChar(st, ch) ==
    IF ch = "["
    THEN IF st.start \/ st.stop THEN [st EXCEPT !.failed = TRUE]
         ELSE [st EXCEPT !.start = TRUE]
    ELSE IF ch = "]"
    THEN IF ~st.start \/ st.stop THEN [st EXCEPT !.failed = TRUE]
         ELSE [parse_bind_token_buffer(st) EXCEPT !.stop = TRUE]
    ELSE IF ch = "+"
    THEN parse_bind_token_buffer(st)
    ELSE IF ~st.start \/ st.stop THEN [st EXCEPT !.failed = TRUE]
         ELSE parse_token_buffer_add_char(st, buffer_size, ch)

\* button_item_command_from_string: its loop from the i-th character of bind (the
\* string behind "command") to the end of the string or the first error
RECURSIVE ParseBind(_, _, _)
ParseBind(bind, i, st) ==
    IF st.failed THEN st
    ELSE IF i > Len(bind)
    THEN IF ~st.start \/ ~st.stop \/ st.type = INTERACTION_UNIVERSAL
         THEN [st EXCEPT !.failed = TRUE]
         ELSE st
    ELSE ParseBind(bind, i + 1, ParseChar(st, bind[i]))

\* button_item_command_from_string
button_item_command_from_string(bind, command) ==
    LET st == ParseBind(bind, 1, ParseStart(context))
        k == find_item_command(commands, st.type, st.modifiers, st.special, FALSE)
    IN
    /\ context' = st.need
    /\ IF st.failed
       THEN /\ UNCHANGED commands
            /\ last_add' = [replaced |-> FALSE, at |-> 0, old |-> NoString,
                            bind |-> bind, ok |-> FALSE]
       ELSE /\ k # NULL \/ Len(commands) < MaxCommands
            /\ commands' \in item_add_command(commands, command, st.type, st.modifiers,
                                              st.special)
            /\ last_add' = Added(k, bind)

\* button_item_universal_command
button_item_universal_command(command) ==
    LET k == find_item_command(commands, INTERACTION_UNIVERSAL, 0, 0, FALSE) IN
    /\ context' = [context EXCEPT !.need_pointer = TRUE, !.need_touch = TRUE]
    /\ k # NULL \/ Len(commands) < MaxCommands
    /\ commands' \in item_add_command(commands, command, INTERACTION_UNIVERSAL, 0, 0)
    /\ last_add' = Added(k, <<>>)

\* The bind strings of the configuration the model follows.
BindStrings ==
    {\* [mouse-left]
     <<"[", "m", "o", "u", "s", "e", "-", "l", "e", "f", "t", "]">>,
     \* [alt+mouse-left]
     <<"[", "a", "l", "t", "+", "m", "o", "u", "s", "e", "-", "l", "e", "f", "t",
     "]">>,
     \* [alt+shift+mouse-right]
     <<"[", "a", "l", "t", "+", "s", "h", "i", "f", "t", "+", "m", "o", "u", "s",
     "e", "-", "r", "i", "g", "h", "t", "]">>,
     \* [scroll-up+alt]
     <<"[", "s", "c", "r", "o", "l", "l", "-", "u", "p", "+", "a", "l", "t", "]">>,
     \* [alt+alt+scroll-down]
     <<"[", "a", "l", "t", "+", "a", "l", "t", "+", "s", "c", "r", "o", "l", "l",
     "-", "d", "o", "w", "n", "]">>,
     \* [alt]
     <<"[", "a", "l", "t", "]">>,
     \* []
     <<"[", "]">>,
     \* [mouse-left
     <<"[", "m", "o", "u", "s", "e", "-", "l", "e", "f", "t">>,
     \* mouse-left]
     <<"m", "o", "u", "s", "e", "-", "l", "e", "f", "t", "]">>,
     \* [[mouse-left]
     <<"[", "[", "m", "o", "u", "s", "e", "-", "l", "e", "f", "t", "]">>,
     \* [mouse-left]]
     <<"[", "m", "o", "u", "s", "e", "-", "l", "e", "f", "t", "]", "]">>,
     \* [mouse-left+touch]
     <<"[", "m", "o", "u", "s", "e", "-", "l", "e", "f", "t", "+", "t", "o", "u",
     "c", "h", "]">>,
     \* [foo]
     <<"[", "f", "o", "o", "]">>,
     \* [alt+]
     <<"[", "a", "l", "t", "+", "]">>,
     \* [touch]x
     <<"[", "t", "o", "u", "c", "h", "]", "x">>,
     \* [touch][alt]
     <<"[", "t", "o", "u", "c", "h", "]", "[", "a", "l", "t", "]">>,
     \* [aaaaaaaaaaaaaaaaaaaa]
     <<"[", "a", "a", "a", "a", "a", "a", "a", "a", "a", "a", "a", "a", "a", "a",
     "a", "a", "a", "a", "a", "a", "]">>,
     \* (empty)
     <<>>}

BindCommands == {<<"l", "s">>}

-----------------------------------------------------------------------------
(* seat.c: binding and releasing a seat's devices                          *)

\* How far the xkb set-up of seat_bind_keyboard and keyboard_handle_keymap gets:
\* the name of the first object that cannot be made, "ok" when all are.
XkbOutcomes == {"ok", "context", "keymap", "state"}
Capabilities == {"keyboard", "pointer", "touch"}

\* seat_release_keyboard: the seat's objects after it
ReleasedKeyboard(r) ==
    [r EXCEPT !.wl_keyboard = FALSE, !.context = FALSE, !.keymap = FALSE,
              !.state = FALSE]

\* seat_bind_keyboard: the seat's objects after it; a failure releases all
BoundKeyboard(r, xkb) ==
    IF xkb = "ok"
    THEN [r EXCEPT !.wl_keyboard = TRUE, !.context = TRUE, !.keymap = TRUE,
                   !.state = TRUE]
    ELSE ReleasedKeyboard(r)

\* keyboard_handle_keymap: mapped is whether mmap gave the keymap's text; the
\* old keymap and state are dropped before the new ones are made, and a failure
\* is logged only.
keyboard_handle_keymap(s, mapped, xkb) ==
    /\ seat' = [seat EXCEPT ![s] =
                    IF ~mapped THEN @
                    ELSE [@ EXCEPT !.keymap = (xkb # "keymap"),
                                   !.state = (xkb \notin {"keymap", "state"})]]
    /\ interactions' = <<>>
    /\ scheduled' = FALSE
    /\ UNCHANGED <<pointer, keyboard, touchpoints, heap, item_instances>>

\* seat_release_pointer: the seat's pointer after it
ReleasedPointer(p) ==
    IF p.item_instance # NULL
    THEN [p EXCEPT !.item_instance = NULL, !.click = 0,
                   !.cursor = seat_pointer_unset_cursor(@)]
    ELSE [p EXCEPT !.cursor = seat_pointer_unset_cursor(@)]

\* A seat_release_pointer that forgets the hovered item instance and leaves
\* the item instance's counters.
PointerReleasedOnKept(ii, p) == ii

\* seat_release_pointer: the item instances after it
PointerReleasedOn(ii, p) ==
    IF p.item_instance # NULL
    THEN [ii EXCEPT ![p.item_instance].indicator = counter_safe_subtract(@, 1),
                    ![p.item_instance].active_indicator =
                        counter_safe_subtract(@, p.click),
                    ![p.item_instance].dirty = TRUE]
    ELSE ii

\* seat_handle_capabilities: each device is bound when the seat has it and the
\* configuration needs it, and released otherwise, the keyboard first, then the
\* pointer, then the touch.
seat_handle_capabilities(s, capabilities, xkb) ==
    LET kb == "keyboard" \in capabilities /\ context.need_keyboard
        ptr == "pointer" \in capabilities /\ context.need_pointer
        tch == "touch" \in capabilities /\ context.need_touch
        r1 == IF kb THEN BoundKeyboard(seat[s], xkb) ELSE ReleasedKeyboard(seat[s])
        ii1 == IF ptr THEN item_instances
               ELSE PointerReleasedOn(item_instances, pointer[s])
    IN
    /\ seat' = [seat EXCEPT ![s] = [r1 EXCEPT !.wl_pointer = ptr, !.wl_touch = tch]]
    /\ keyboard' = IF kb /\ xkb = "ok" THEN keyboard ELSE [keyboard EXCEPT ![s] = 0]
    /\ pointer' = IF ptr THEN pointer
                  ELSE [pointer EXCEPT ![s] = ReleasedPointer(@)]
    /\ item_instances' = IF tch THEN ii1 ELSE DestroyedAll(ii1, touchpoints[s])
    /\ heap' = IF tch THEN heap ELSE FreedAll(heap, s, touchpoints[s])
    /\ touchpoints' = IF tch THEN touchpoints ELSE [touchpoints EXCEPT ![s] = <<>>]
    /\ scheduled' = \/ ~ptr /\ pointer[s].item_instance # NULL
                    \/ ~tch /\ touchpoints[s] # <<>>
    /\ interactions' = <<>>

\* destroy_seat: seat_release_keyboard, seat_release_touch, seat_release_pointer,
\* then the seat leaves context.seats and is freed.
destroy_seat(s) ==
    /\ seat[s].linked
    /\ seat' = [seat EXCEPT ![s] =
                    [ReleasedKeyboard(@) EXCEPT !.wl_touch = FALSE, !.wl_pointer = FALSE,
                                                !.linked = FALSE]]
    /\ keyboard' = [keyboard EXCEPT ![s] = 0]
    /\ item_instances' =
           PointerReleasedOn(DestroyedAll(item_instances, touchpoints[s]), pointer[s])
    /\ heap' = FreedAll(heap, s, touchpoints[s])
    /\ touchpoints' = [touchpoints EXCEPT ![s] = <<>>]
    /\ pointer' = [pointer EXCEPT ![s] = ReleasedPointer(@)]
    /\ scheduled' = (pointer[s].item_instance # NULL \/ touchpoints[s] # <<>>)
    /\ interactions' = <<>>

-----------------------------------------------------------------------------
(* item.c: item_interaction and the end of an item instance.  The main     *)
(* loop and the owner of the item instances (bar.c) are described by the   *)
(* specification only.                                                     *)

\* An item_interaction whose reload only stops the loop.
item_interaction_reload_unflagged(ctx, cmds, call) ==
    LET k == find_item_command(cmds, call.type, call.modifiers, call.special, TRUE) IN
    IF ItemType(call.item) # TYPE_BUTTON THEN ctx
    ELSE IF k = NULL THEN ctx
    ELSE IF cmds[k].action \in {META_ACTION_RELOAD, META_ACTION_EXIT}
         THEN [ctx EXCEPT !.loop = FALSE]
    ELSE ctx

\* item_interaction: context after the call, for an item whose commands are cmds
item_interaction(ctx, cmds, call) ==
    LET k == find_item_command(cmds, call.type, call.modifiers, call.special, TRUE) IN
    IF ItemType(call.item) # TYPE_BUTTON THEN ctx
    ELSE IF k = NULL THEN ctx
    ELSE IF cmds[k].action = META_ACTION_RELOAD
         THEN [ctx EXCEPT !.loop = FALSE, !.reload = TRUE]
    ELSE IF cmds[k].action = META_ACTION_EXIT
         THEN [ctx EXCEPT !.loop = FALSE, !.reload = FALSE]
    ELSE ctx

\* context after the calls of item_interaction a handler made, in their order
RECURSIVE Interacted(_, _, _)
Interacted(ctx, cmds, calls) ==
    IF calls = <<>> THEN ctx
    ELSE Interacted(item_interaction(ctx, cmds, Head(calls)), cmds, Tail(calls))

\* execute_item_command: the command handed to item_command_exec_first_fork,
\* nothing when cmd->command is NULL
execute_item_command(cmd) ==
    IF cmd.command = NoString THEN <<>>
    ELSE <<[request |-> "execute", command |-> cmd.command, seat |-> NULL]>>

\* An item_interaction that runs the command of a toplevel action as well when
\* the toplevel is found.
ItemRequestsWithCommand(cmds, call, found) ==
    LET k == find_item_command(cmds, call.type, call.modifiers, call.special, TRUE) IN
    IF ItemType(call.item) # TYPE_BUTTON \/ k = NULL THEN <<>>
    ELSE IF cmds[k].action = META_ACTION_TOPLEVEL_ACTIVATE /\ found
         THEN execute_item_command(cmds[k])
                  \o <<[request |-> "activate", command |-> NoString,
                        seat |-> call.seat]>>
    ELSE IF cmds[k].action = META_ACTION_TOPLEVEL_CLOSE /\ found
         THEN execute_item_command(cmds[k])
                  \o <<[request |-> "close", command |-> NoString, seat |-> NULL]>>
    ELSE execute_item_command(cmds[k])

\* item_interaction: the commands it executes and the requests it sends to a
\* toplevel, in their order; found tells whether find_toplevel_with_app_id
\* returns a toplevel for the item
ItemRequests(cmds, call, found) ==
    LET k == find_item_command(cmds, call.type, call.modifiers, call.special, TRUE) IN
    IF ItemType(call.item) # TYPE_BUTTON \/ k = NULL THEN <<>>
    ELSE IF cmds[k].action = META_ACTION_TOPLEVEL_ACTIVATE /\ found
         THEN <<[request |-> "activate", command |-> NoString, seat |-> call.seat]>>
    ELSE IF cmds[k].action = META_ACTION_TOPLEVEL_CLOSE /\ found
         THEN <<[request |-> "close", command |-> NoString, seat |-> NULL]>>
    ELSE execute_item_command(cmds[k])

\* What the calls of item_interaction a handler made execute and request
RECURSIVE Executed(_, _, _)
Executed(cmds, calls, found) ==
    IF calls = <<>> THEN <<>>
    ELSE ItemRequests(cmds, Head(calls), found) \o Executed(cmds, Tail(calls), found)

\* The touchpoints of a list that did not start on an item instance of gone.
RECURSIVE Surviving(_, _)
Surviving(list, gone) ==
    IF list = <<>> THEN <<>>
    ELSE IF Head(list).item_instance \in gone THEN Surviving(Tail(list), gone)
    ELSE <<Head(list)>> \o Surviving(Tail(list), gone)

\* An invalidation pass that forgets the pointers.
InvalidatedTouchOnly(p, gone) == p

\* The owner's invalidation pass over a seat's pointer before the item
\* instances of gone are freed.
Invalidated(p, gone) ==
    IF p.item_instance \in gone THEN [p EXCEPT !.item_instance = NULL, !.click = 0]
    ELSE p

\* The places and sizes the bar gives an item instance: <<x, y, w, h>>; the
\* spacer has one place.
Geometries(i) ==
    IF i = 3 THEN {<<3, 0, 1, 1>>} ELSE {<<0, 0, 1, 1>>, <<1, 0, 2, 1>>}

\* configure_item_instance
configure_item_instance(i, x, y, w, h) ==
    /\ item_instances' = [item_instances EXCEPT ![i].dirty = TRUE, ![i].x = x,
                                                ![i].y = y, ![i].w = w, ![i].h = h]
    /\ UNCHANGED rendered

\* What a render draws from: the indicators, the place and the size.
Drawn(ii) ==
    [done |-> TRUE, indicator |-> ii.indicator, active_indicator |-> ii.active_indicator,
     x |-> ii.x, y |-> ii.y, w |-> ii.w, h |-> ii.h]

\* An item_instance_next_frame that clears the flag before it looks at the bar.
item_instance_next_frame_clears_first(i, hidden, buffer) ==
    /\ item_instances' = [item_instances EXCEPT ![i].dirty = FALSE]
    /\ rendered' = IF ItemType(ItemOf(i)) = TYPE_BUTTON /\ ~hidden /\ buffer
                   THEN [rendered EXCEPT ![i] = Drawn(item_instances[i])]
                   ELSE rendered

\* item_instance_next_frame, on a bar instance that is hidden or not and with
\* next_buffer finding a buffer or not
item_instance_next_frame(i, hidden, buffer) ==
    IF ItemType(ItemOf(i)) # TYPE_BUTTON
    THEN /\ item_instances' = [item_instances EXCEPT ![i].dirty = FALSE]
         /\ UNCHANGED rendered
    ELSE IF hidden \/ ~buffer
    THEN UNCHANGED <<item_instances, rendered>>
    ELSE /\ item_instances' = [item_instances EXCEPT ![i].dirty = FALSE]
         /\ rendered' = [rendered EXCEPT ![i] = Drawn(item_instances[i])]

\* next_buffer: the buffer it leaves in current_buffer, the first of the two
\* that is not in flight with the compositor, NULL when both are.
next_buffer(pool) ==
    IF ~pool[1].busy THEN 1 ELSE IF ~pool[2].busy THEN 2 ELSE NULL

\* The release event of a buffer the compositor holds.
buffer_handle_release(b, k) == [b EXCEPT !.pool[k].busy = FALSE]

\* A render that looks for a buffer before it looks at the bar instance.
NextFrameBuffersHiddenLate(b, ii, i, hidden, created) ==
    LET current == next_buffer(b.pool) IN
    IF ItemType(ItemOf(i)) # TYPE_BUTTON THEN b
    ELSE IF hidden THEN [b EXCEPT !.current_buffer = current, !.attached = NULL]
    ELSE IF current = NULL \/ ~created THEN [b EXCEPT !.current_buffer = current]
    ELSE [b EXCEPT !.current_buffer = current, !.attached = current,
                   !.pool[current] = [busy |-> TRUE, image |-> Drawn(ii)]]

\* A render that falls back to the first buffer when none is free.
NextFrameBuffersFallBack(b, ii, i, hidden, created) ==
    LET current == next_buffer(b.pool)
        paint == IF current = NULL THEN 1 ELSE current
    IN  IF ItemType(ItemOf(i)) # TYPE_BUTTON THEN b
        ELSE IF hidden THEN [b EXCEPT !.attached = NULL]
        ELSE IF ~created THEN [b EXCEPT !.current_buffer = current]
        ELSE [b EXCEPT !.current_buffer = paint, !.attached = paint,
                       !.pool[paint] = [busy |-> TRUE, image |-> Drawn(ii)]]

\* item_instance_next_frame: the instance's buffers after it.  created is
\* whether next_buffer could make the buffer it found fit the instance's size.
\* The buffer painted is attached and committed, and so in flight from then on;
\* on a hidden bar instance the surface's buffer is detached.
NextFrameBuffers(b, ii, i, hidden, created) ==
    LET current == next_buffer(b.pool) IN
    IF ItemType(ItemOf(i)) # TYPE_BUTTON THEN b
    ELSE IF hidden THEN [b EXCEPT !.attached = NULL]
    ELSE IF current = NULL \/ ~created THEN [b EXCEPT !.current_buffer = current]
    ELSE [b EXCEPT !.current_buffer = current, !.attached = current,
                   !.pool[current] = [busy |-> TRUE, image |-> Drawn(ii)]]

\* finish_item_instance: the surfaces and buffers are destroyed; no seat is touched.
finish_item_instance(done, i) == done \cup {i}

\* The end of the main loop after a reload was signalled: the owner of the item
\* instances invalidates every seat's references to them and finishes them.
ReloadTeardown ==
    /\ ~context.loop
    /\ context.reload
    /\ finished = {}
    /\ pointer' = [s \in Seats |-> Invalidated(pointer[s], ItemInstances)]
    /\ touchpoints' = [s \in Seats |-> Surviving(touchpoints[s], ItemInstances)]
    /\ finished' = UNION {finish_item_instance(finished, i) : i \in ItemInstances}
    /\ interactions' = <<>>
    /\ scheduled' = FALSE
    /\ UNCHANGED <<keyboard, heap, item_instances>>

-----------------------------------------------------------------------------
(* History variables: what the environment did, kept beside the program's  *)
(* state so that properties can speak of it.  No handler reads them.       *)

NotPressed == -1

Ev(name, s, arg, x) == [name |-> name, seat |-> s, arg |-> arg, x |-> x]

\* A contact is on an item instance from its down over it until its up, the
\* seat's cancel, or a motion to a place where another instance or none is.
TouchingObserved ==
    LET e == event' IN
    touching' =
        CASE e.name = "touch_down" ->
                 [touching EXCEPT ![e.seat][e.arg] =
                     bar_instance_get_item_instance_from_coords(e.x)]
          [] e.name = "touch_up" -> [touching EXCEPT ![e.seat][e.arg] = NULL]
          [] e.name = "touch_motion" ->
                 [touching EXCEPT ![e.seat][e.arg] =
                     IF bar_instance_get_item_instance_from_coords(e.x) = @
                     THEN @ ELSE NULL]
          [] e.name = "touch_cancel" ->
                 [touching EXCEPT ![e.seat] = [id \in TouchIds |-> NULL]]
          [] OTHER -> touching

\* Where each held button was pressed: the item instance under the pointer when
\* the press arrived (NULL over no item, or with the pointer off the bar).
PressedOnObserved ==
    LET e == event' IN
    pressed_on' =
        CASE e.name = "press" ->
                 [pressed_on EXCEPT ![e.seat][e.arg] = pointer[e.seat].item_instance]
          [] e.name = "release" -> [pressed_on EXCEPT ![e.seat][e.arg] = NotPressed]
          [] OTHER -> pressed_on

\* The sequence enter, motion over an item instance, press, motion off it,
\* release, by one seat and with no other event between.  Phase 1: entered;
\* 2: moved over item_instance, whose counters just before the pointer came to
\* hover it are indicator and active_indicator; 3: pressed; 4: moved off it;
\* 5: released.  Any event outside the sequence starts over.
NoScenario ==
    [phase |-> 0, seat |-> 0, item_instance |-> NULL, indicator |-> 0,
     active_indicator |-> 0]

Hovering(phase, s, i, before) ==
    [phase |-> phase, seat |-> s, item_instance |-> i,
     indicator |-> before.indicator, active_indicator |-> before.active_indicator]

ScenarioObserved ==
    LET e == event'
        s == e.seat
        old == pointer[s].item_instance
        new == pointer'[s].item_instance
        mine == scenario.seat = s
        \* the counters of new before the seat's pointer came to hover it
        before == IF new = old /\ scenario.item_instance = new
                  THEN scenario ELSE item_instances[new]
    IN
    scenario' =
        CASE e.name = "enter" ->
                 IF new = NULL THEN [NoScenario EXCEPT !.phase = 1, !.seat = s]
                 ELSE Hovering(1, s, new, item_instances[new])
          [] e.name = "motion" /\ mine /\ scenario.phase \in {1, 2} ->
                 IF new = NULL THEN [NoScenario EXCEPT !.phase = 1, !.seat = s]
                 ELSE Hovering(2, s, new, before)
          [] e.name = "press" /\ mine /\ scenario.phase = 2 ->
                 [scenario EXCEPT !.phase = 3]
          [] e.name = "motion" /\ mine /\ scenario.phase = 3 ->
                 IF new = scenario.item_instance THEN scenario
                 ELSE [scenario EXCEPT !.phase = 4]
          [] e.name = "release" /\ mine /\ scenario.phase = 4 ->
                 [scenario EXCEPT !.phase = 5]
          [] OTHER -> NoScenario

-----------------------------------------------------------------------------
(* The events the compositor delivers.                                     *)

TouchUp(S, I) ==
    \E s \in S, id \in I :
        touch_handle_up(s, id) /\ event' = Ev("touch_up", s, id, 0)
TouchDown(S, I) ==
    \E s \in S, id \in I, x \in Coords :
        touch_handle_down(s, id, x) /\ event' = Ev("touch_down", s, id, x)
TouchMotion(S, I) ==
    \E s \in S, id \in I, x \in Coords :
        touch_handle_motion(s, id, x) /\ event' = Ev("touch_motion", s, id, x)
TouchCancel(S) ==
    \E s \in S : touch_handle_cancel(s) /\ event' = Ev("touch_cancel", s, 0, 0)
KeyboardModifiers(S) ==
    \E s \in S, m \in ModifierMasks :
        keyboard_handle_modifiers(s, m) /\ event' = Ev("modifiers", s, m, 0)
PointerEnter(S) ==
    \E s \in S, x \in Coords :
        pointer_handle_enter(s, x) /\ event' = Ev("enter", s, 0, x)
PointerMotion(S) ==
    \E s \in S, x \in Coords :
        pointer_handle_motion(s, x) /\ event' = Ev("motion", s, 0, x)
PointerLeave(S) ==
    \E s \in S : pointer_handle_leave(s) /\ event' = Ev("leave", s, 0, 0)
\* The enter and motion events at the places X of the bar; x = 3 is over the spacer.
PointerEnterAt(S, X) ==
    \E s \in S, x \in X :
        pointer_handle_enter(s, x) /\ event' = Ev("enter", s, 0, x)
PointerMotionAt(S, X) ==
    \E s \in S, x \in X :
        pointer_handle_motion(s, x) /\ event' = Ev("motion", s, 0, x)
PointerPress(S, B) ==
    \E s \in S, b \in B :
        pointer_handle_button_pressed(s, b) /\ event' = Ev("press", s, b, 0)
PointerRelease(S, B) ==
    \E s \in S, b \in B :
        pointer_handle_button_released(s, b) /\ event' = Ev("release", s, b, 0)
PointerAxis(S) ==
    \E s \in S, time \in AxisTimes, axis \in Axes, value \in AxisValues :
        pointer_handle_axis(s, time, axis, value) /\ event' = Ev("axis", s, axis, 0)
\* The axis event with its time and value kept in the history; the times lie
\* at, just over and far from the timeout of each other.
AxisTimeSamples == {0, 1000, 2001}
PointerAxisTimed(S) ==
    \E s \in S, time \in AxisTimeSamples, axis \in Axes, value \in AxisValues :
        pointer_handle_axis(s, time, axis, value)
            /\ event' = Ev("axis", s, axis, <<time, value>>)
PointerAxisDiscrete(S) ==
    \E s \in S, axis \in Axes, steps \in AxisSteps :
        pointer_handle_axis_discrete(s, axis, steps)
            /\ event' = Ev("axis_discrete", s, axis, 0)
PointerFrame(S) ==
    \E s \in S : pointer_handle_frame(s) /\ event' = Ev("frame", s, 0, 0)
Configure(I) ==
    \E i \in I : \E g \in Geometries(i) :
        /\ configure_item_instance(i, g[1], g[2], g[3], g[4])
        /\ interactions' = <<>>
        /\ scheduled' = FALSE
        /\ event' = Ev("configure", 0, i, 0)
        /\ UNCHANGED <<pointer, keyboard, touchpoints, heap>>
NextFrame(I) ==
    \E i \in I, hidden \in BOOLEAN, buffer \in BOOLEAN :
        /\ item_instance_next_frame(i, hidden, buffer)
        /\ interactions' = <<>>
        /\ scheduled' = FALSE
        /\ event' = Ev("next_frame", IF hidden \/ ~buffer THEN 0 ELSE 1, i, 0)
        /\ UNCHANGED <<pointer, keyboard, touchpoints, heap>>
\* item_instance_next_frame with next_buffer's outcome taken from the
\* instance's buffers; the event's seat field tells whether a buffer was found
\* and its place whether the bar instance was hidden.
RenderFrame(I) ==
    \E i \in I, hidden \in BOOLEAN, created \in BOOLEAN :
        LET found == next_buffer(buffers[i].pool) # NULL /\ created IN
        /\ item_instance_next_frame(i, hidden, found)
        /\ buffers' = [buffers EXCEPT ![i] =
                           NextFrameBuffers(@, item_instances[i], i, hidden, created)]
        /\ interactions' = <<>>
        /\ scheduled' = FALSE
        /\ event' = Ev("next_frame", IF hidden \/ ~found THEN 0 ELSE 1, i,
                       IF hidden THEN 1 ELSE 0)
        /\ UNCHANGED <<pointer, keyboard, touchpoints, heap, cursors>>
BufferRelease(I) ==
    \E i \in I, k \in 1 .. 2 :
        /\ buffers[i].pool[k].busy
        /\ buffers' = [buffers EXCEPT ![i] = buffer_handle_release(@, k)]
        /\ interactions' = <<>>
        /\ scheduled' = FALSE
        /\ event' = Ev("buffer_release", 0, i, k)
        /\ UNCHANGED <<pointer, keyboard, touchpoints, heap, item_instances, rendered,
                       cursors>>
KeyboardKeymap(S) ==
    \E s \in S, mapped \in BOOLEAN, xkb \in XkbOutcomes \ {"context"} :
        /\ keyboard_handle_keymap(s, mapped, xkb)
        /\ event' = Ev("keymap", s, IF mapped /\ xkb # "ok" THEN 1 ELSE 0, 0)
SeatCapabilities(S, C) ==
    \E s \in S, capabilities \in C, xkb \in XkbOutcomes :
        /\ seat_handle_capabilities(s, capabilities, xkb)
        /\ event' = Ev("capabilities", s, IF "keyboard" \in capabilities THEN 1 ELSE 0, 0)
DestroySeat(S) ==
    \E s \in S : destroy_seat(s) /\ event' = Ev("destroy_seat", s, 0, 0)
Teardown ==
    ReloadTeardown /\ event' = Ev("teardown", 0, 0, 0)
\* A toplevel with the item's app id appears or goes away.
ToplevelChanged ==
    /\ toplevel' = ~toplevel
    /\ interactions' = <<>>
    /\ scheduled' = FALSE
    /\ event' = Ev("toplevel", 0, 0, 0)
    /\ UNCHANGED <<pointer, keyboard, touchpoints, heap, item_instances>>

-----------------------------------------------------------------------------
(* The first state: create_seat with seat_init_touch, seat_init_keyboard   *)
(* and seat_init_pointer, the seat's first capabilities event, which binds *)
(* its devices, and init_item_instance.                                    *)

\* A seat of context.seats whose three devices are bound.
Bound ==
    [linked |-> TRUE, wl_keyboard |-> TRUE, context |-> TRUE, keymap |-> TRUE,
     state |-> TRUE, wl_pointer |-> TRUE, wl_touch |-> TRUE]

\* An item instance no render has completed for.
NotRendered == [done |-> FALSE]

\* The buffers of an item instance before its first render: init_item_instance
NoBuffers ==
    [pool |-> [b \in 1 .. 2 |-> [busy |-> FALSE, image |-> NotRendered]],
     current_buffer |-> NULL, attached |-> NULL]

\* A cursor theme that loads and has every cursor, and no buffer in use.
InitSurfaces ==
    /\ cursors = CursorTypes
    /\ buffers = [i \in ItemInstances |-> NoBuffers]

InitSeats ==
    /\ pointer = [s \in Seats |->
                     [instance |-> NULL, x |-> 0, item_instance |-> NULL, click |-> 0,
                      discrete_steps |-> 0, last_update_time |-> 0, value |-> 0,
                      cursor |-> CURSOR_NONE]]
    /\ keyboard = [s \in Seats |-> 0]
    /\ touchpoints = [s \in Seats |-> <<>>]
    /\ heap = EmptyBag
    /\ item_instances = [i \in ItemInstances |->
                            [indicator |-> 0, active_indicator |-> 0, dirty |-> FALSE,
                             x |-> 0, y |-> 0, w |-> 0, h |-> 0]]
    /\ interactions = <<>>
    /\ scheduled = FALSE
    /\ toplevel = FALSE
    /\ executed = <<>>
    /\ event = Ev("init", 0, 0, 0)
    /\ touching = [s \in Seats |-> [id \in TouchIds |-> NULL]]
    /\ pressed_on = [s \in Seats |-> [b \in Buttons |-> NotPressed]]
    /\ scenario = NoScenario
    /\ seat = [s \in Seats |-> Bound]
    /\ finished = {}
    /\ rendered = [i \in ItemInstances |-> NotRendered]

\* create_item: wl_list_init(&item->commands)
InitCommands ==
    /\ commands = <<>>
    /\ last_add = [replaced |-> FALSE, at |-> 0, old |-> NoString, bind |-> <<>>,
                   ok |-> TRUE]
    /\ context = [need_keyboard |-> FALSE, need_pointer |-> FALSE, need_touch |-> FALSE,
                  loop |-> TRUE, reload |-> FALSE]

Init ==
    /\ InitSeats
    /\ InitSurfaces
    /\ InitCommands
    /\ counter = 0
    /\ counter_before = 0
    /\ subtrahend = 0

HistoryOfTouch ==
    /\ TouchingObserved
    /\ UNCHANGED <<pressed_on, scenario, counterVars, surfaceVars, processVars,
                   commandVars, lifeVars>>

\* One seat's pointer, with one button, and every seat's touch, with one touch id.
Next ==
    \/ TouchUp(Seats, {0}) /\ HistoryOfTouch
    \/ TouchDown(Seats, {0}) /\ HistoryOfTouch
    \/ TouchMotion(Seats, {0}) /\ HistoryOfTouch
    \/ TouchCancel(Seats) /\ HistoryOfTouch
    \/ PointerEnter({1}) /\ HistoryOfTouch
    \/ PointerMotion({1}) /\ HistoryOfTouch
    \/ PointerLeave({1}) /\ HistoryOfTouch
    \/ PointerPress({1}, {BTN_LEFT}) /\ HistoryOfTouch
    \/ PointerRelease({1}, {BTN_LEFT}) /\ HistoryOfTouch

Spec == Init /\ [][Next]_vars

\* Every seat's touch and keyboard events.
NextTouch ==
    \/ TouchUp(Seats, TouchIds) /\ HistoryOfTouch
    \/ TouchDown(Seats, TouchIds) /\ HistoryOfTouch
    \/ TouchMotion(Seats, TouchIds) /\ HistoryOfTouch
    \/ TouchCancel(Seats) /\ HistoryOfTouch
    \/ KeyboardModifiers(Seats) /\ HistoryOfTouch

SpecTouch == Init /\ [][NextTouch]_vars

\* Every seat's pointer events, with one button.
HistoryOfScenario ==
    /\ ScenarioObserved
    /\ UNCHANGED <<touching, pressed_on, counterVars, surfaceVars, processVars,
                   commandVars, lifeVars>>

NextPointer ==
    \/ PointerEnter(Seats) /\ HistoryOfScenario
    \/ PointerMotion(Seats) /\ HistoryOfScenario
    \/ PointerLeave(Seats) /\ HistoryOfScenario
    \/ PointerPress(Seats, {BTN_LEFT}) /\ HistoryOfScenario
    \/ PointerRelease(Seats, {BTN_LEFT}) /\ HistoryOfScenario

SpecPointer == Init /\ [][NextPointer]_vars

\* One seat's pointer and keyboard events, with the place of every press remembered.
HistoryOfButtons ==
    /\ PressedOnObserved
    /\ UNCHANGED <<touching, scenario, counterVars, surfaceVars, processVars,
                   commandVars, lifeVars>>

NextButtons ==
    \/ PointerEnter({1}) /\ HistoryOfButtons
    \/ PointerMotion({1}) /\ HistoryOfButtons
    \/ PointerLeave({1}) /\ HistoryOfButtons
    \/ PointerPress({1}, Buttons) /\ HistoryOfButtons
    \/ PointerRelease({1}, Buttons) /\ HistoryOfButtons
    \/ KeyboardModifiers({1}) /\ HistoryOfButtons

SpecButtons == Init /\ [][NextButtons]_vars

\* One seat's pointer moving and scrolling.
HistoryOfScroll ==
    UNCHANGED <<touching, pressed_on, scenario,
                counterVars, surfaceVars, processVars, commandVars, lifeVars>>

NextScroll ==
    \/ PointerEnter({1}) /\ HistoryOfScroll
    \/ PointerMotion({1}) /\ HistoryOfScroll
    \/ PointerLeave({1}) /\ HistoryOfScroll
    \/ PointerAxis({1}) /\ HistoryOfScroll
    \/ PointerAxisDiscrete({1}) /\ HistoryOfScroll
    \/ PointerFrame({1}) /\ HistoryOfScroll
    \/ KeyboardModifiers({1}) /\ HistoryOfScroll

SpecScroll == Init /\ [][NextScroll]_vars

\* The configuration of one button: its bind strings.
NextBinds ==
    \/ /\ \E bind \in BindStrings, command \in BindCommands :
              button_item_command_from_string(bind, command)
       /\ UNCHANGED <<seatVars, historyVars, counterVars, surfaceVars, processVars,
                      lifeVars>>
    \/ /\ \E command \in BindCommands : button_item_universal_command(command)
       /\ UNCHANGED <<seatVars, historyVars, counterVars, surfaceVars, processVars,
                      lifeVars>>

SpecBinds == Init /\ [][NextBinds]_vars

\* The commands of every button once the configuration is read: the left
\* button reloads, the right button exits.
ReloadCommands ==
    <<[type |-> INTERACTION_MOUSE_BUTTON, modifiers |-> 0, special |-> BTN_LEFT,
       action |-> META_ACTION_RELOAD, command |-> NoString],
      [type |-> INTERACTION_MOUSE_BUTTON, modifiers |-> 0, special |-> BTN_RIGHT,
       action |-> META_ACTION_EXIT, command |-> NoString]>>

InitOfReload ==
    /\ InitSeats
    /\ InitSurfaces
    /\ InitCounter
    /\ commands = ReloadCommands
    /\ last_add = [replaced |-> FALSE, at |-> 0, old |-> NoString, bind |-> <<>>,
                   ok |-> TRUE]
    /\ context = [need_keyboard |-> FALSE, need_pointer |-> TRUE, need_touch |-> TRUE,
                  loop |-> TRUE, reload |-> FALSE]

\* The main loop delivers events while context.loop is set; the handlers'
\* calls of item_interaction act on context.
HistoryOfReload ==
    /\ context.loop
    /\ context' = Interacted(context, commands, interactions')
    /\ UNCHANGED <<commands, last_add, touching, pressed_on, scenario,
                   counterVars, surfaceVars, processVars,
                   lifeVars>>

\* Every seat's pointer, the buttons of one and the touch of the other until a
\* button reloads or exits, and the teardown after a reload.
NextReload ==
    \/ PointerEnter(Seats) /\ HistoryOfReload
    \/ PointerMotion(Seats) /\ HistoryOfReload
    \/ PointerLeave(Seats) /\ HistoryOfReload
    \/ PointerPress({1}, Buttons) /\ HistoryOfReload
    \/ PointerRelease({1}, Buttons) /\ HistoryOfReload
    \/ TouchDown({2}, {0}) /\ HistoryOfReload
    \/ TouchUp({2}, {0}) /\ HistoryOfReload
    \/ /\ Teardown
       /\ UNCHANGED <<commandVars, touching, pressed_on, scenario,
                      counterVars, surfaceVars, processVars,
                      seat, rendered>>

SpecReload == InitOfReload /\ [][NextReload]_vars

\* One seat's pointer over item instances the bar configures and renders.
HistoryOfRender ==
    UNCHANGED <<touching, pressed_on, scenario,
                counterVars, surfaceVars, processVars, commandVars, seat,
                finished>>

NextRender ==
    \/ PointerEnter({1}) /\ UNCHANGED rendered /\ HistoryOfRender
    \/ PointerLeave({1}) /\ UNCHANGED rendered /\ HistoryOfRender
    \/ PointerPress({1}, {BTN_LEFT}) /\ UNCHANGED rendered /\ HistoryOfRender
    \/ PointerRelease({1}, {BTN_LEFT}) /\ UNCHANGED rendered /\ HistoryOfRender
    \/ Configure({1, 3}) /\ HistoryOfRender
    \/ NextFrame({1, 3}) /\ HistoryOfRender

SpecRender == Init /\ [][NextRender]_vars

\* The seats once a configuration that needs every device has been read.
InitOfLife ==
    /\ InitSeats
    /\ InitSurfaces
    /\ InitCounter
    /\ commands = <<>>
    /\ last_add = [replaced |-> FALSE, at |-> 0, old |-> NoString, bind |-> <<>>,
                   ok |-> TRUE]
    /\ context = [need_keyboard |-> TRUE, need_pointer |-> TRUE, need_touch |-> TRUE,
                  loop |-> TRUE, reload |-> FALSE]

\* One seat's keyboard, which comes and goes, and its pointer's button.
HistoryOfKeyboard ==
    UNCHANGED <<touching, pressed_on, scenario,
                counterVars, surfaceVars, processVars, commandVars, finished,
                rendered>>

NextKeyboard ==
    \/ seat[1].wl_keyboard /\ KeyboardModifiers({1}) /\ UNCHANGED seat
           /\ HistoryOfKeyboard
    \/ seat[1].wl_keyboard /\ KeyboardKeymap({1}) /\ HistoryOfKeyboard
    \/ SeatCapabilities({1}, {Capabilities, Capabilities \ {"keyboard"}})
           /\ HistoryOfKeyboard
    \/ PointerEnter({1}) /\ UNCHANGED seat /\ HistoryOfKeyboard
    \/ PointerLeave({1}) /\ UNCHANGED seat /\ HistoryOfKeyboard
    \/ PointerPress({1}, {BTN_LEFT}) /\ UNCHANGED seat /\ HistoryOfKeyboard
    \/ PointerRelease({1}, {BTN_LEFT}) /\ UNCHANGED seat /\ HistoryOfKeyboard

SpecKeyboard == InitOfLife /\ [][NextKeyboard]_vars

\* One seat's touch and pointer events, in any order the compositor may send.
HistoryOfSequence ==
    UNCHANGED <<touching, pressed_on, scenario,
                counterVars, surfaceVars, processVars, commandVars, lifeVars>>

NextSequence ==
    \/ TouchUp({1}, {0}) /\ HistoryOfSequence
    \/ TouchMotion({1}, {0}) /\ HistoryOfSequence
    \/ PointerEnter({1}) /\ HistoryOfSequence
    \/ PointerLeave({1}) /\ HistoryOfSequence
    \/ PointerPress({1}, {BTN_LEFT}) /\ HistoryOfSequence
    \/ PointerRelease({1}, {BTN_LEFT}) /\ HistoryOfSequence
    \/ PointerAxis({1}) /\ HistoryOfSequence
    \/ PointerAxisDiscrete({1}) /\ HistoryOfSequence

SpecSequence == Init /\ [][NextSequence]_vars

\* Two seats until they are removed: one with pointer, button and touch, the
\* other with a pointer that comes to hover.  A removed seat gets no event.
HistoryOfDestroy ==
    /\ TouchingObserved
    /\ PressedOnObserved
    /\ UNCHANGED <<scenario, counterVars, surfaceVars, processVars,
                   commandVars, finished, rendered>>

NextDestroy ==
    \/ seat[1].linked /\ PointerEnter({1}) /\ UNCHANGED seat /\ HistoryOfDestroy
    \/ seat[1].linked /\ PointerPress({1}, {BTN_LEFT}) /\ UNCHANGED seat
           /\ HistoryOfDestroy
    \/ seat[1].linked /\ PointerRelease({1}, {BTN_LEFT}) /\ UNCHANGED seat
           /\ HistoryOfDestroy
    \/ seat[1].linked /\ TouchDown({1}, {0}) /\ UNCHANGED seat /\ HistoryOfDestroy
    \/ seat[2].linked /\ PointerEnter({2}) /\ UNCHANGED seat /\ HistoryOfDestroy
    \/ DestroySeat(Seats) /\ HistoryOfDestroy

SpecDestroy == InitOfLife /\ [][NextDestroy]_vars

\* One seat's pointer over item instances the bar configures and renders into
\* their two buffers, which the compositor holds and releases.
HistoryOfBuffers ==
    UNCHANGED <<touching, pressed_on, scenario, counterVars, commandVars, seat,
                finished, processVars>>

NextBuffers ==
    \/ PointerEnter({1}) /\ UNCHANGED <<rendered, surfaceVars>> /\ HistoryOfBuffers
    \/ PointerLeave({1}) /\ UNCHANGED <<rendered, surfaceVars>> /\ HistoryOfBuffers
    \/ Configure({1}) /\ UNCHANGED surfaceVars /\ HistoryOfBuffers
    \/ RenderFrame({1, 3}) /\ HistoryOfBuffers
    \/ BufferRelease({1, 3}) /\ HistoryOfBuffers

SpecBuffers == Init /\ [][NextBuffers]_vars

\* A button and the spacer that the bar configures and renders, hidden or not,
\* while the compositor holds and releases the button's buffers.
NextSkip ==
    \/ Configure({1, 3}) /\ UNCHANGED surfaceVars /\ HistoryOfBuffers
    \/ RenderFrame({1, 3}) /\ HistoryOfBuffers
    \/ BufferRelease({1}) /\ HistoryOfBuffers

SpecSkip == Init /\ [][NextSkip]_vars

\* A cursor theme that may lack the default cursor, the pointer cursor or both.
InitOfCursors ==
    /\ InitSeats
    /\ InitCommands
    /\ InitCounter
    /\ cursors \in SUBSET CursorTypes
    /\ buffers = [i \in ItemInstances |-> NoBuffers]

\* One seat's pointer with two buttons, and another seat's pointer coming and
\* going, under every cursor theme.
HistoryOfCursors ==
    UNCHANGED <<touching, pressed_on, scenario, counterVars, surfaceVars, processVars,
                commandVars,
                lifeVars>>

NextCursors ==
    \/ PointerEnter(Seats) /\ HistoryOfCursors
    \/ PointerMotion({1}) /\ HistoryOfCursors
    \/ PointerLeave(Seats) /\ HistoryOfCursors
    \/ PointerPress({1}, Buttons) /\ HistoryOfCursors
    \/ PointerRelease({1}, Buttons) /\ HistoryOfCursors

SpecCursors == InitOfCursors /\ [][NextCursors]_vars

\* One seat's pointer on and off the bar, scrolling with timed axis events.
HistoryOfAxis ==
    UNCHANGED <<touching, pressed_on, scenario, counterVars, surfaceVars, processVars,
                commandVars,
                lifeVars>>

NextAxis ==
    \/ PointerEnter({1}) /\ HistoryOfAxis
    \/ PointerLeave({1}) /\ HistoryOfAxis
    \/ PointerAxisTimed({1}) /\ HistoryOfAxis
    \/ PointerAxisDiscrete({1}) /\ HistoryOfAxis
    \/ PointerFrame({1}) /\ HistoryOfAxis

SpecAxis == Init /\ [][NextAxis]_vars

\* The places of the bar instance a pointer is at: no item, a button, the spacer.
Places == {0, 1, 3}

\* Two seats' pointers over no item, a button and the spacer, the button of
\* one, and the seats losing their pointer.  A seat that has lost its pointer
\* gets no pointer event.
HistoryOfSelect ==
    UNCHANGED <<touching, pressed_on, scenario, counterVars, surfaceVars, processVars,
                commandVars, finished, rendered>>

NextSelect ==
    \/ \E s \in Seats : seat[s].wl_pointer /\ PointerEnterAt({s}, Places)
           /\ UNCHANGED seat /\ HistoryOfSelect
    \/ \E s \in Seats : seat[s].wl_pointer /\ PointerMotionAt({s}, Places)
           /\ UNCHANGED seat /\ HistoryOfSelect
    \/ \E s \in Seats : seat[s].wl_pointer /\ PointerLeave({s})
           /\ UNCHANGED seat /\ HistoryOfSelect
    \/ seat[1].wl_pointer /\ PointerPress({1}, {BTN_LEFT}) /\ UNCHANGED seat
           /\ HistoryOfSelect
    \/ seat[1].wl_pointer /\ PointerRelease({1}, {BTN_LEFT}) /\ UNCHANGED seat
           /\ HistoryOfSelect
    \/ SeatCapabilities(Seats, {{"touch"}}) /\ HistoryOfSelect

SpecSelect == InitOfLife /\ [][NextSelect]_vars

\* The action strings of a configuration: every meta action alone and with a
\* command behind it, and a plain command.
DispatchStrings ==
    {MetaActions[i].name : i \in 1 .. Len(MetaActions)}
        \cup {MetaActions[i].name \o <<" ", "f">> : i \in 1 .. Len(MetaActions)}
        \cup {<<"l", "s">>}

\* The configurations of the buttons: no command, one for the left mouse
\* button, or one for each mouse button, the right one reloading or exiting.
DispatchConfigs ==
    LET left == [type |-> INTERACTION_MOUSE_BUTTON, modifiers |-> 0,
                 special |-> BTN_LEFT]
        right == [type |-> INTERACTION_MOUSE_BUTTON, modifiers |-> 0,
                  special |-> BTN_RIGHT]
    IN  {<<>>} \cup {<<<<left, a>>>> : a \in DispatchStrings}
            \cup {<<<<left, a>>, <<right, MetaActions[i].name>>>> :
                      a \in DispatchStrings, i \in {3, 4}}

\* The lists of commands item_add_command leaves after the lines of a
\* configuration, applied first to last.
RECURSIVE Configured(_)
Configured(lines) ==
    IF lines = <<>> THEN {<<>>}
    ELSE LET line == lines[Len(lines)] IN
         UNION {item_add_command(cmds, line[2], line[1].type, line[1].modifiers,
                                 line[1].special) :
                   cmds \in Configured(SubSeq(lines, 1, Len(lines) - 1))}

InitOfDispatch ==
    /\ InitSeats
    /\ InitSurfaces
    /\ InitCounter
    /\ commands \in UNION {Configured(lines) : lines \in DispatchConfigs}
    /\ last_add = [replaced |-> FALSE, at |-> 0, old |-> NoString, bind |-> <<>>,
                   ok |-> TRUE]
    /\ context = [need_keyboard |-> FALSE, need_pointer |-> TRUE, need_touch |-> FALSE,
                  loop |-> TRUE, reload |-> FALSE]

\* The handlers' calls of item_interaction act on context, execute commands
\* and send requests.  The events of one batch are all handled, whatever a
\* handler before them in the batch did to context.loop.
HistoryOfDispatch ==
    /\ context' = Interacted(context, commands, interactions')
    /\ executed' = Executed(commands, interactions', toplevel')
    /\ UNCHANGED <<commands, last_add, touching, pressed_on, scenario, counterVars,
                   surfaceVars, lifeVars>>

\* One seat's pointer over a button and the spacer, its two buttons, and the
\* toplevels that come and go.
NextDispatch ==
    \/ PointerEnterAt({1}, {1, 3}) /\ UNCHANGED toplevel /\ HistoryOfDispatch
    \/ PointerPress({1}, Buttons) /\ UNCHANGED toplevel /\ HistoryOfDispatch
    \/ PointerRelease({1}, Buttons) /\ UNCHANGED toplevel /\ HistoryOfDispatch
    \/ ToplevelChanged /\ HistoryOfDispatch

SpecDispatch == InitOfDispatch /\ [][NextDispatch]_vars

\* Action strings of a configuration: plain commands, the empty string, meta
\* actions alone and with text behind them, and strings that begin like one.
ActionStrings ==
    {<<>>, <<"l", "s">>, <<"@">>, <<"@", "r", "e">>, <<"@", "x">>,
     MetaActions[2].name, MetaActions[3].name, MetaActions[4].name,
     MetaActions[3].name \o <<" ", "f", "o", "o">>, MetaActions[4].name \o <<"x">>}

\* The binds of the left mouse button and of the touch.
ActionBinds ==
    {[type |-> INTERACTION_MOUSE_BUTTON, modifiers |-> 0, special |-> BTN_LEFT],
     [type |-> INTERACTION_TOUCH, modifiers |-> 0, special |-> 0]}

\* Calls of item_add_command, with the bind and the action string of the last
\* one kept in the history.
NextActions ==
    /\ \E bind \in ActionBinds, command \in ActionStrings :
           /\ AddCommand(bind, command)
           /\ event' = Ev("add_command", 0, bind, command)
    /\ UNCHANGED <<seatVars, touching, pressed_on, scenario, counterVars, surfaceVars,
                   processVars, lifeVars>>

SpecActions == Init /\ [][NextActions]_vars

\* Calls of counter_safe_subtract on one counter.
InitOfCounter ==
    /\ InitCounter
    /\ InitSeats
    /\ InitSurfaces
    /\ InitCommands

NextCounter ==
    /\ \E n \in U32Samples : Subtract(n)
    /\ UNCHANGED <<seatVars, historyVars, commandVars, lifeVars, surfaceVars,
                processVars>>

SpecCounter == InitOfCounter /\ [][NextCounter]_vars

\* The configuration of one button: calls of item_add_command.
NextCommands ==
    /\ \E bind \in Binds, command \in CommandStrings : AddCommand(bind, command)
    /\ UNCHANGED <<seatVars, historyVars, counterVars, surfaceVars, processVars,
                   lifeVars>>

SpecCommands == Init /\ [][NextCommands]_vars

-----------------------------------------------------------------------------
(* Properties                                                              *)

\* C1: counter_safe_subtract(c, n) on a 32-bit unsigned counter yields 0 when
\* n > c and c - n otherwise, so after every call the counter is not larger than
\* it was before the call: it has not wrapped around.
C1_safe_subtract_saturates ==
    /\ ~U32Gt(counter, counter_before)
    /\ U32Gt(subtrahend, counter_before) => counter = 0
    /\ ~U32Gt(subtrahend, counter_before) => counter = counter_before - subtrahend

\* A call that asked for more than the counter held, and left 0.
C1_witness ==
    /\ U32Gt(subtrahend, counter_before)
    /\ counter_before > 0
    /\ counter = 0

\* C2: no stuck press indicator.  An item instance has active_indicator > 0 only
\* if some seat's pointer hovers it with press depth > 0, or some touch that went
\* down on it has not ended by up, cancel or drifting off it.
C2_no_stuck_press_indicator ==
    \A i \in ItemInstances :
        item_instances[i].active_indicator # 0 =>
            \/ \E s \in Seats : pointer[s].item_instance = i /\ pointer[s].click > 0
            \/ \E s \in Seats, id \in TouchIds : touching[s][id] = i

\* C3: for the pointer sequence enter, motion over item A, press, motion off A,
\* release: when the pointer has left A, A's indicator and active_indicator are
\* what they were before the pointer came to hover A, and neither the motion off A
\* nor the release dispatches a mouse-button interaction for A.
C3_press_then_move_off ==
    LET A == scenario.item_instance IN
    /\ scenario.phase = 4 =>
           /\ item_instances[A].indicator = scenario.indicator
           /\ item_instances[A].active_indicator = scenario.active_indicator
    /\ scenario.phase \in {4, 5} =>
           \A k \in 1 .. Len(interactions) :
               ~(/\ interactions[k].item = ItemOf(A)
                 /\ interactions[k].type = INTERACTION_MOUSE_BUTTON)

\* C4: a mouse-button interaction is dispatched to an item only if the button was
\* pressed over that same item: at every dispatch for a button that was pressed
\* over an item, that item is the one the interaction goes to (press over A, move
\* to B, release does not interact with B).
C4_click_needs_press_on_same_item ==
    [][\A k \in 1 .. Len(interactions') :
           LET i == interactions'[k] IN
           (/\ i.type = INTERACTION_MOUSE_BUTTON
            /\ pressed_on[i.seat][i.special] \in ItemInstances)
               => ItemOf(pressed_on[i.seat][i.special]) = i.item]_vars

\* C5: touch tap.  A touch up with id k, for a touch that went down over item
\* instance I and was neither cancelled nor moved off I, dispatches exactly one
\* touch interaction, to I's item, with the seat's modifier mask of that moment
\* and sub-code 0, and leaves the seat with no touchpoint for k.
C5_touch_tap_dispatches_once ==
    [][(event'.name = "touch_up" /\ touching[event'.seat][event'.arg] # NULL) =>
           /\ interactions' =
                  <<Interaction(ItemOf(touching[event'.seat][event'.arg]), event'.seat,
                                INTERACTION_TOUCH, keyboard[event'.seat], 0)>>
           /\ \A k \in 1 .. Len(touchpoints'[event'.seat]) :
                  touchpoints'[event'.seat][k].id # event'.arg]_vars

\* C6: touch drift.  A motion that takes a touch which went down on item instance
\* A to a place where another item instance or none is destroys the touchpoint:
\* A's active_indicator is decremented and A is dirty; that motion dispatches
\* nothing, and neither does an up for an id whose touch has drifted off.
C6_touch_drift_destroys_touchpoint ==
    [][LET s == event'.seat
           id == event'.arg
           A == touching[s][id]
       IN  /\ (/\ event'.name = "touch_motion"
               /\ A # NULL
               /\ bar_instance_get_item_instance_from_coords(event'.x) # A) =>
                  /\ item_instances'[A].active_indicator =
                         counter_safe_subtract(item_instances[A].active_indicator, 1)
                  /\ item_instances'[A].dirty
                  /\ \A k \in 1 .. Len(touchpoints'[s]) : touchpoints'[s][k].id # id
                  /\ interactions' = <<>>
           /\ (event'.name = "touch_up" /\ A = NULL) => interactions' = <<>>]_vars

\* C7: a seat holds at most one live touchpoint per touch id: of the touchpoints
\* allocated and not freed, no two belong to the same seat and have the same id.
C7_one_touchpoint_per_id ==
    \A s \in Seats, id \in TouchIds :
        LET live == {tp \in BagToSet(heap) : tp.seat = s /\ tp.id = id} IN
        /\ Cardinality(live) <= 1
        /\ \A tp \in live : CopiesIn(tp, heap) <= 1

\* C8: touch cancel fully unwinds.  After touch cancel on a seat the seat has no
\* touchpoints, the cancel dispatched nothing, and every item instance's
\* active_indicator is lower by the number of the seat's touches that had gone
\* down on it and not ended.
C8_touch_cancel_unwinds ==
    [][event'.name = "touch_cancel" =>
           LET s == event'.seat IN
           /\ touchpoints'[s] = <<>>
           /\ interactions' = <<>>
           /\ \A i \in ItemInstances :
                  item_instances'[i].active_indicator =
                      counter_safe_subtract(
                          item_instances[i].active_indicator,
                          Cardinality({id \in TouchIds : touching[s][id] = i}))]_vars

\* C9: command resolution prefers the exact binding.  For a list holding a
\* universal command and a command for an exact (type, modifiers, special), in
\* whichever order they were added, the lookup with the universal rule allowed
\* finds the exact command for its interaction, and the universal command for
\* every other interaction that is no scroll and has no exact command.
C9_exact_command_wins ==
    \A u \in 1 .. Len(commands) :
        commands[u].type = INTERACTION_UNIVERSAL =>
            /\ \A k \in 1 .. Len(commands) :
                   find_item_command(commands, commands[k].type, commands[k].modifiers,
                                     commands[k].special, TRUE) = k
            /\ \A bind \in Binds :
                   (/\ bind.type # INTERACTION_MOUSE_SCROLL
                    /\ \A k \in 1 .. Len(commands) :
                           ~ExactMatch(commands[k], bind.type, bind.modifiers,
                                       bind.special)) =>
                       find_item_command(commands, bind.type, bind.modifiers,
                                         bind.special, TRUE) = u

\* C10: after any sequence of item_add_command calls the list holds at most one
\* command per exact (type, modifiers, special); a call whose tuple is already in
\* the list changes that command where it is and leaves the length of the list.
C10_one_command_per_tuple ==
    /\ [](\A j, k \in 1 .. Len(commands) :
              j # k => ~ExactMatch(commands[j], commands[k].type,
                                   commands[k].modifiers, commands[k].special))
    /\ [][last_add'.replaced =>
              /\ Len(commands') = Len(commands)
              /\ \A k \in 1 .. Len(commands) :
                     /\ ExactMatch(commands'[k], commands[k].type,
                                   commands[k].modifiers, commands[k].special)
                     /\ k # last_add'.at => commands'[k] = commands[k]]_vars

\* A call has replaced the command string of a command that is not the head of
\* the list.
C10_witness ==
    /\ last_add.replaced
    /\ last_add.at > 1
    /\ Len(commands) = MaxCommands
    /\ commands[last_add.at].command # last_add.old

\* C11: discrete scroll.  A frame that finds an item instance hovered and n >= 1
\* discrete steps accumulated dispatches exactly n scroll interactions to the
\* hovered item, whatever the accumulated value is, and leaves discrete_steps
\* and value at 0.
C11_discrete_scroll ==
    [][LET p == pointer[event'.seat] IN
       (/\ event'.name = "frame"
        /\ p.instance # NULL
        /\ p.item_instance # NULL
        /\ p.discrete_steps >= 1) =>
           /\ Len(interactions') = p.discrete_steps
           /\ \A k \in 1 .. Len(interactions') :
                  /\ interactions'[k].item = ItemOf(p.item_instance)
                  /\ interactions'[k].type = INTERACTION_MOUSE_SCROLL
           /\ pointer'[event'.seat].discrete_steps = 0
           /\ pointer'[event'.seat].value = 0]_vars

\* A frame has dispatched MaxSteps scroll interactions and reset the accumulators.
C11_witness ==
    /\ event.name = "frame"
    /\ Len(interactions) = MaxSteps
    /\ \A k \in 1 .. Len(interactions) : interactions[k].type = INTERACTION_MOUSE_SCROLL
    /\ pointer[event.seat].discrete_steps = 0
    /\ pointer[event.seat].value = 0

\* C12: scroll direction.  The scroll interactions a frame dispatches while the
\* accumulated value is positive carry sub-code 1, the code of scroll-up, and
\* while it is negative sub-code 0: the direction follows the sign of the raw
\* value, whatever its magnitude.
C12_scroll_direction ==
    [][event'.name = "frame" =>
           \A k \in 1 .. Len(interactions') :
               /\ pointer[event'.seat].value > 0 => interactions'[k].special = 1
               /\ pointer[event'.seat].value < 0 => interactions'[k].special = 0]_vars

\* C13: continuous-only scroll.  A frame that finds an item instance hovered, no
\* discrete steps and the value v dispatches, when |v| > 10000, k scroll
\* interactions, k the least count with |v| - 10000 * k <= 10000, and leaves v
\* smaller in magnitude by 10000 * k with its sign; when |v| <= 10000 it
\* dispatches nothing and leaves v.
C13_continuous_scroll ==
    [][LET p == pointer[event'.seat]
           v == p.value
           k == Len(interactions')
       IN
       (/\ event'.name = "frame"
        /\ p.instance # NULL
        /\ p.item_instance # NULL
        /\ p.discrete_steps = 0) =>
           IF abs(v) > 10000
           THEN /\ abs(v) - 10000 * k <= 10000
                /\ abs(v) - 10000 * (k - 1) > 10000
                /\ pointer'[event'.seat].value =
                       IF v > 0 THEN v - 10000 * k ELSE v + 10000 * k
                /\ \A j \in 1 .. k :
                       /\ interactions'[j].item = ItemOf(p.item_instance)
                       /\ interactions'[j].type = INTERACTION_MOUSE_SCROLL
           ELSE /\ k = 0
                /\ pointer'[event'.seat].value = v]_vars

\* A frame has dispatched two scroll interactions for the value 25000 and left 5000.
C13_witness ==
    /\ event.name = "frame"
    /\ Len(interactions) = 2
    /\ pointer[event.seat].discrete_steps = 0
    /\ pointer[event.seat].value = 5000

\* What a bind string says, read off the string itself: it is bracketed when it
\* is one "[", a text without brackets, and one "]"; its tokens are the pieces of
\* that text between the "+".
Bracketed(bind) ==
    /\ Len(bind) >= 2
    /\ bind[1] = "["
    /\ bind[Len(bind)] = "]"
    /\ \A i \in 2 .. (Len(bind) - 1) : bind[i] \notin {"[", "]"}

RECURSIVE SplitAtPlus(_)
SplitAtPlus(text) ==
    LET plus == {i \in 1 .. Len(text) : text[i] = "+"}
        first == CHOOSE i \in plus : \A j \in plus : i <= j
    IN  IF plus = {} THEN <<text>>
        ELSE <<SubSeq(text, 1, first - 1)>>
                 \o SplitAtPlus(SubSeq(text, first + 1, Len(text)))

TokensOf(bind) == SplitAtPlus(SubSeq(bind, 2, Len(bind) - 1))

DeviceTokensOf(bind) ==
    {i \in 1 .. Len(TokensOf(bind)) :
        \E tok \in Tokens : ~tok.modifier /\ tok.name = TokensOf(bind)[i]}

ModifiersOf(bind) ==
    {tok.value : tok \in {m \in Tokens : /\ m.modifier
                                         /\ \E i \in 1 .. Len(TokensOf(bind)) :
                                                m.name = TokensOf(bind)[i]}}

\* C14: binding parse.  The command an accepted bind string is stored in has the
\* interaction type and sub-code of the string's single device token and, as its
\* modifier mask, exactly the union of the string's modifier tokens; a bracketed
\* string whose tokens are modifiers only is rejected.
C14_bind_parse ==
    LET bind == last_add.bind IN
    /\ (last_add.ok /\ bind # <<>>) =>
           /\ Bracketed(bind)
           /\ Cardinality(DeviceTokensOf(bind)) = 1
           /\ \E tok \in Tokens :
                  /\ ~tok.modifier
                  /\ \E i \in DeviceTokensOf(bind) : tok.name = TokensOf(bind)[i]
                  /\ commands[last_add.at].type = tok.type
                  /\ commands[last_add.at].special = tok.value
           /\ commands[last_add.at].modifiers =
                  (IF ALT \in ModifiersOf(bind) THEN ALT ELSE 0)
                      + (IF SHIFT \in ModifiersOf(bind) THEN SHIFT ELSE 0)
    /\ (bind # <<>> /\ Bracketed(bind) /\ DeviceTokensOf(bind) = {}) => ~last_add.ok

\* The bind string with alt, shift and a mouse button has been stored.
C14_witness ==
    /\ last_add.ok
    /\ last_add.bind # <<>>
    /\ ModifiersOf(last_add.bind) = {ALT, SHIFT}
    /\ commands[last_add.at].type = INTERACTION_MOUSE_BUTTON
    /\ commands[last_add.at].modifiers = ALT + SHIFT

\* C15: binding parse failure.  A bind string with unbalanced or repeated
\* brackets, more than one device token, an unrecognized or empty token, a token
\* of more than 19 characters, or no device token is rejected, and a rejected
\* string leaves the item's commands exactly as they were.
C15_bind_parse_failure ==
    [][LET bind == last_add'.bind IN
       /\ (\/ ~Bracketed(bind)
           \/ Cardinality(DeviceTokensOf(bind)) # 1
           \/ \E i \in 1 .. Len(TokensOf(bind)) :
                  \/ Len(TokensOf(bind)[i]) > 19
                  \/ \A tok \in Tokens : tok.name # TokensOf(bind)[i])
              => (last_add'.ok => bind = <<>>)
       /\ ~last_add'.ok => commands' = commands]_vars

\* A bind string with two device tokens has been rejected by a button that has
\* commands.
C15_witness ==
    /\ ~last_add.ok
    /\ Bracketed(last_add.bind)
    /\ Cardinality(DeviceTokensOf(last_add.bind)) = 2
    /\ Len(commands) = MaxCommands

ChangedSinceRender(i) ==
    rendered[i].done /\ Drawn(item_instances[i]) # rendered[i]

\* C17: an item instance whose hover count, press count, position or size
\* differs from its value at the instance's last completed render is dirty; a
\* handler that changes one of them leaves the instance dirty; and the flag is
\* cleared by a completed render or by the render of a spacer only.
C17_dirty_invariant ==
    /\ [](\A i \in ItemInstances : ChangedSinceRender(i) => item_instances[i].dirty)
    /\ [][\A i \in ItemInstances :
              /\ Drawn(item_instances'[i]) # Drawn(item_instances[i])
                     => item_instances'[i].dirty
              /\ (item_instances[i].dirty /\ ~item_instances'[i].dirty)
                     => /\ event'.name = "next_frame"
                        /\ event'.arg = i
                        /\ \/ ItemType(ItemOf(i)) = TYPE_SPACER
                           \/ event'.seat = 1 /\ rendered'[i] = Drawn(item_instances[i])
         ]_vars

\* An item instance was rendered, a handler then changed what a render draws
\* from, and a frame came that did not complete; the instance is still dirty.
C17_witness ==
    /\ event.name = "next_frame"
    /\ event.seat = 0
    /\ \E i \in ItemInstances : ChangedSinceRender(i) /\ item_instances[i].dirty

\* C18: a keymap event that fails to make the new keymap or the new state
\* leaves the seat's keyboard released entirely and its modifier mask 0, and an
\* interaction of a seat that has no xkb state carries the modifier mask 0.
C18_keymap_failure ==
    /\ [][(event'.name = "keymap" /\ event'.arg = 1) =>
              /\ ~seat'[event'.seat].wl_keyboard
              /\ ~seat'[event'.seat].context
              /\ ~seat'[event'.seat].keymap
              /\ ~seat'[event'.seat].state
              /\ keyboard'[event'.seat] = 0]_vars
    /\ [](\A k \in 1 .. Len(interactions) :
              ~seat[interactions[k].seat].state => interactions[k].modifiers = 0)

\* C19: a touch up or touch motion whose id has no touchpoint in the seat's
\* list, and a button, axis or axis_discrete event that arrives while the seat's
\* pointer is on no bar instance, dispatch no interaction and leave the seat's
\* pointer, the touchpoints and every item instance as they were.
C19_sequencing_errors_dropped ==
    [][LET e == event'
           s == e.seat
           untracked == /\ e.name \in {"touch_up", "touch_motion"}
                        /\ touchpoint_from_id(s, e.arg) = NULL
           off_bar == /\ e.name \in {"press", "release", "axis", "axis_discrete"}
                      /\ pointer[s].instance = NULL
       IN  (untracked \/ off_bar) =>
               /\ interactions' = <<>>
               /\ pointer' = pointer
               /\ touchpoints' = touchpoints
               /\ heap' = heap
               /\ item_instances' = item_instances]_vars

\* A vertical axis_discrete event has arrived while the seat's pointer, which
\* had scrolled on the bar before, was on no bar instance.
C19_witness ==
    /\ event.name = "axis_discrete"
    /\ event.arg = WL_POINTER_AXIS_VERTICAL_SCROLL
    /\ pointer[event.seat].instance = NULL
    /\ pointer[event.seat].value # 0

\* What a seat that is still there adds to an item instance's indicator: one
\* hover when its pointer is over it.
HoverOf(s, i) ==
    IF seat[s].linked /\ pointer[s].item_instance = i THEN 1 ELSE 0
\* A seat that adds nothing to any active indicator: it is removed, or it holds
\* no button and none of its contacts is unfinished.
AddsNoPress(s) ==
    \/ ~seat[s].linked
    \/ /\ \A b \in Buttons : pressed_on[s][b] = NotPressed
       /\ \A id \in TouchIds : touching[s][id] = NULL

\* C20: after destroy_seat the seat's keyboard, touch and pointer are released,
\* its list holds no touchpoint, every item instance's indicator counts the
\* hovers of the seats that are left, and its active indicator is 0 when none of
\* them holds a button or has an unfinished contact: nothing the removed seat's
\* hover, held buttons and unfinished contacts had added is still counted.
C20_destroy_seat_unwinds ==
    event.name = "destroy_seat" =>
        /\ ~seat[event.seat].wl_keyboard
        /\ ~seat[event.seat].wl_touch
        /\ ~seat[event.seat].wl_pointer
        /\ touchpoints[event.seat] = <<>>
        /\ \A i \in ItemInstances :
               /\ item_instances[i].indicator = HoverOf(1, i) + HoverOf(2, i)
               /\ (\A s \in Seats : AddsNoPress(s)) =>
                      item_instances[i].active_indicator = 0

\* C21: a render changes no buffer that the compositor held when it began:
\* the one buffer it paints and submits was free, becomes the current buffer and
\* holds what the item instance showed, and the dirty flag is cleared with it.
\* A render of a button that paints no buffer, as when both are held, submits
\* nothing and leaves the item instance, its dirty flag included, as it was.
\* Only a release by the compositor frees a held buffer.
C21_double_buffering ==
    [][\A i \in ItemInstances :
           LET old == buffers[i]
               new == buffers'[i]
               render == event'.name = "next_frame" /\ event'.arg = i
               painted == {k \in 1 .. 2 : new.pool[k] # old.pool[k]}
           IN
           /\ render
                  => /\ \A k \in painted :
                            /\ ~old.pool[k].busy
                            /\ new.current_buffer = k
                            /\ new.pool[k] =
                                   [busy |-> TRUE, image |-> Drawn(item_instances[i])]
                            /\ ~item_instances'[i].dirty
                     /\ painted = {} /\ ItemType(ItemOf(i)) = TYPE_BUTTON
                            => /\ item_instances'[i] = item_instances[i]
                               /\ rendered'[i] = rendered[i]
                     /\ old.pool[1].busy /\ old.pool[2].busy => painted = {}
           /\ ~render /\ painted # {}
                  => /\ event'.name = "buffer_release"
                     /\ \A k \in painted : new.pool[k].image = old.pool[k].image
      ]_vars

\* A render of the dirty item instance 1 has just found both of its buffers
\* held by the compositor, and an earlier render painted the second buffer
\* while the first was held.
C21_witness ==
    /\ event = Ev("next_frame", 0, 1, 0)
    /\ buffers[1].pool[1].busy
    /\ buffers[1].pool[2].busy
    /\ buffers[1].pool[2].image # buffers[1].pool[1].image
    /\ item_instances[1].dirty

C23_unchanged_motion_no_effect ==
    [][\A s \in Seats :
           event'.name \in {"enter", "motion"} /\ event'.seat = s
                   /\ pointer'[s].item_instance = pointer[s].item_instance
               => /\ item_instances' = item_instances
                  /\ pointer'[s] = [pointer[s] EXCEPT !.x = event'.x,
                                                       !.instance = pointer'[s].instance]
                  /\ ~scheduled'
      ]_vars

\* C23, amended: such an enter or motion changes no item instance's counters
\* or dirty flag, not the hovered item instance and asks for no frame; it leaves
\* the cursor type alone when an item instance is hovered, and sets the default
\* cursor (none when the theme lacks it) when none is.
C23_unchanged_motion_keeps_items ==
    [][\A s \in Seats :
           event'.name \in {"enter", "motion"} /\ event'.seat = s
                   /\ pointer'[s].item_instance = pointer[s].item_instance
               => /\ item_instances' = item_instances
                  /\ pointer'[s] =
                         [pointer[s] EXCEPT
                             !.x = event'.x,
                             !.instance = pointer'[s].instance,
                             !.cursor = IF pointer[s].item_instance # NULL THEN @
                                        ELSE IF CURSOR_DEFAULT \in cursors
                                        THEN CURSOR_DEFAULT ELSE CURSOR_NONE]
                  /\ ~scheduled'
      ]_vars

\* Seat 1 holds a button over item instance 1, which another seat hovers too,
\* and has just moved within it.
C23_witness ==
    /\ event = Ev("motion", 1, 0, 1)
    /\ pointer[1].item_instance = 1
    /\ pointer[1].click = 1
    /\ pointer[1].cursor = CURSOR_POINTER
    /\ pointer[2].item_instance = 1
    /\ item_instances[1].indicator = 2
    /\ item_instances[1].active_indicator = 1
    /\ ~scheduled

\* C24: the press depth of a seat's pointer is never negative, whatever the
\* order of presses, releases, leaves and enters, so that a motion never adds a
\* wrapped amount to the active indicator of the item instance it comes to hover.
C24_press_depth_saturates ==
    \A s \in Seats :
        /\ pointer[s].click >= 0
        /\ \A i \in ItemInstances : item_instances[i].active_indicator >= 0

\* C25: a press or release that changes the seat's press depth or an item
\* instance's active indicator asks for a frame of the bar in the same handler,
\* also when no item instance is hovered.
C25_button_requests_frame ==
    [][\A s \in Seats :
           event'.name \in {"press", "release"} /\ event'.seat = s
                   /\ (pointer'[s].click # pointer[s].click
                           \/ item_instances' # item_instances)
               => scheduled'
      ]_vars

\* C25, amended: a press or release asks for a frame of the bar exactly when
\* the seat's pointer is on the bar and hovers an item instance, which is the
\* only case in which it writes an item instance; with no item instance hovered
\* it changes the press depth only.
C25_button_over_item_requests_frame ==
    [][\A s \in Seats :
           event'.name \in {"press", "release"} /\ event'.seat = s
               => LET hovered == pointer[s].instance # NULL
                                     /\ pointer[s].item_instance # NULL
                  IN  /\ scheduled' = hovered
                      /\ hovered => item_instances'[pointer[s].item_instance].dirty
                      /\ ~hovered => item_instances' = item_instances
                      /\ pointer[s].instance # NULL
                             => pointer'[s].click # pointer[s].click
      ]_vars

\* Seat 1 has just pressed a button over item instance 2, and the handler
\* asked for a frame.
C25_witness ==
    /\ event.name = "press"
    /\ event.seat = 1
    /\ pointer[1].item_instance = 2
    /\ pointer[1].click = 1
    /\ item_instances[2].active_indicator = 1
    /\ item_instances[2].dirty
    /\ scheduled

\* C26: after a leave the item instance the seat hovered, if any, has its
\* indicator lowered by 1 and its active indicator by the press depth, both
\* saturating at 0, and is dirty; no other item instance has changed; and the
\* seat's pointer is at position 0 on no bar, hovers nothing, has press depth 0
\* and cursor type none, whether or not an item instance was hovered.
C26_leave_resets_pointer ==
    [][\A s \in Seats :
           event'.name = "leave" /\ event'.seat = s
               => LET A == pointer[s].item_instance
                      d == pointer[s].click
                  IN  /\ pointer'[s].x = 0
                      /\ pointer'[s].instance = NULL
                      /\ pointer'[s].item_instance = NULL
                      /\ pointer'[s].click = 0
                      /\ pointer'[s].cursor = CURSOR_NONE
                      /\ \A i \in ItemInstances :
                             item_instances'[i] =
                                 IF i # A THEN item_instances[i]
                                 ELSE [item_instances[i] EXCEPT
                                          !.indicator = IF U32Gt(1, @) THEN 0 ELSE @ - 1,
                                          !.active_indicator =
                                              IF U32Gt(d, @) THEN 0 ELSE @ - d,
                                          !.dirty = TRUE]
      ]_vars

\* Seat 1 pressed the left button over item instance 1 and has just left the
\* bar with the button held: the item instance shows neither hover nor press.
C26_witness ==
    /\ event.name = "leave"
    /\ event.seat = 1
    /\ pressed_on[1][BTN_LEFT] = 1
    /\ pressed_on[1][BTN_RIGHT] = NotPressed
    /\ item_instances[1].indicator = 0
    /\ item_instances[1].active_indicator = 0
    /\ item_instances[1].dirty
    /\ ~item_instances[2].dirty
    /\ pointer[1].click = 0
    /\ pointer[1].cursor = CURSOR_NONE

\* The interactions the seats may hand to item_interaction for a button: every
\* device type with every modifier mask and sub-code of the model.
InteractionSamples ==
    [item : {1},
     seat : {1},
     type : {INTERACTION_MOUSE_BUTTON, INTERACTION_MOUSE_SCROLL, INTERACTION_TOUCH},
     modifiers : {0, ALT, SHIFT, ALT + SHIFT},
     special : {0, 1, BTN_LEFT, BTN_RIGHT}]

\* C27: for an interaction no command of the item binds exactly, the lookup
\* item_interaction makes finds nothing when the interaction is a scroll, also
\* when the item has a universal command; finds the universal command when the
\* interaction is a mouse button or a touch, whatever its modifiers and
\* sub-code; and finds nothing, and item_interaction does nothing, when the item
\* has no universal command either.
C27_universal_fallback ==
    \A call \in InteractionSamples :
        LET k == find_item_command(commands, call.type, call.modifiers, call.special,
                                   TRUE)
            universal == {u \in 1 .. Len(commands) :
                             commands[u].type = INTERACTION_UNIVERSAL}
            exact == {j \in 1 .. Len(commands) :
                         /\ commands[j].type = call.type
                         /\ commands[j].modifiers = call.modifiers
                         /\ commands[j].special = call.special}
        IN  exact = {} =>
                /\ call.type = INTERACTION_MOUSE_SCROLL => k = NULL
                /\ call.type # INTERACTION_MOUSE_SCROLL /\ universal # {}
                       => k \in universal
                /\ universal = {} => k = NULL
                /\ k = NULL => item_interaction(context, commands, call) = context

\* The item has a universal command behind a command for the left mouse button
\* with alt, and has no command for any scroll or for the touch.
C27_witness ==
    /\ Len(commands) = 2
    /\ commands[1].type = INTERACTION_MOUSE_BUTTON
    /\ commands[1].modifiers = ALT
    /\ commands[1].special = BTN_LEFT
    /\ commands[2].type = INTERACTION_UNIVERSAL
    /\ context.need_touch

\* C28: a scroll interaction is dispatched by the frame handler only, for the
\* seat of the frame and to the item whose item instance that seat's pointer
\* hovers on the bar: the axis and axis_discrete handlers dispatch nothing, and
\* so does a frame of a seat that hovers no item instance or is on no bar.
C28_scroll_dispatch_at_frame ==
    /\ \A k \in 1 .. Len(interactions) :
           interactions[k].type = INTERACTION_MOUSE_SCROLL
               => /\ event.name = "frame"
                  /\ interactions[k].seat = event.seat
                  /\ pointer[event.seat].instance # NULL
                  /\ pointer[event.seat].item_instance # NULL
                  /\ interactions[k].item = ItemOf(pointer[event.seat].item_instance)
    /\ event.name \in {"axis", "axis_discrete"} => interactions = <<>>
    /\ event.name = "frame"
           /\ (pointer[event.seat].instance = NULL
                   \/ pointer[event.seat].item_instance = NULL)
           => interactions = <<>>

\* A frame has just dispatched two scroll interactions to the item of item
\* instance 2, which the seat's pointer hovers.
C28_witness ==
    /\ event.name = "frame"
    /\ Len(interactions) = 2
    /\ interactions[1].type = INTERACTION_MOUSE_SCROLL
    /\ interactions[2].item = ItemOf(2)
    /\ pointer[1].item_instance = 2

\* C29: an axis event of the vertical axis with time t and value v, received
\* by a pointer on the bar, makes the accumulated value v when no discrete step
\* is accumulated and t is more than 1000 after the last axis time (as uint32_t
\* times), and adds v to it otherwise; the last axis time becomes t either way.
\* An axis event of another axis changes nothing.
C29_stale_scroll_discarded ==
    [][\A s \in Seats :
           event'.name = "axis" /\ event'.seat = s /\ pointer[s].instance # NULL
               => LET p == pointer[s]
                      t == event'.x[1]
                      v == event'.x[2]
                      elapsed == t - p.last_update_time
                      late == IF elapsed >= 0 THEN elapsed > 1000 ELSE TRUE
                  IN  /\ event'.arg = WL_POINTER_AXIS_VERTICAL_SCROLL
                             => pointer'[s] =
                                    [p EXCEPT !.value = IF p.discrete_steps = 0 /\ late
                                                        THEN v ELSE @ + v,
                                              !.last_update_time = t]
                      /\ event'.arg # WL_POINTER_AXIS_VERTICAL_SCROLL
                             => pointer'[s] = p
                      /\ UNCHANGED <<item_instances, keyboard>>
                      /\ interactions' = <<>>
      ]_vars

\* An axis event that came 1001 after the last one, with no discrete step
\* accumulated, has just left its own value as the accumulated value.
C29_witness ==
    /\ event.name = "axis"
    /\ event.arg = WL_POINTER_AXIS_VERTICAL_SCROLL
    /\ event.x = <<2001, -7500>>
    /\ pointer[1].value = -7500
    /\ pointer[1].last_update_time = 2001
    /\ pointer[1].discrete_steps = 0
    /\ pointer[1].item_instance = 1

\* C30: from any state of a seat's pointer, an axis event and an axis_discrete
\* event of the vertical axis lead, in either order, to the same number and
\* direction of scroll interactions at the next frame and to the same
\* accumulated value, discrete steps and last axis time after it.
C30_axis_order_irrelevant ==
    \A s \in Seats, time \in AxisTimeSamples, value \in AxisValues, steps \in AxisSteps :
        LET p == pointer[s]
            V == WL_POINTER_AXIS_VERTICAL_SCROLL
            axis_first == DiscreteAccumulated(AxisAccumulated(p, time, V, value), V, steps)
            axis_last == AxisAccumulated(DiscreteAccumulated(p, V, steps), time, V, value)
        IN  /\ p.item_instance # NULL
                   => /\ FrameScrolls(axis_first) = FrameScrolls(axis_last)
                      /\ ScrollDirection(axis_first.value)
                             = ScrollDirection(axis_last.value)
            /\ FrameFlushed(axis_first) = FrameFlushed(axis_last)

\* C31: a release that dispatches a command whose action is toplevel-activate
\* or toplevel-close sends exactly that request, and executes nothing, when a
\* toplevel with the item's app id exists; when none exists it executes the
\* stored command, and nothing when no command is stored.
C31_toplevel_actions ==
    (event.name = "release" /\ interactions # <<>>) =>
        LET call == interactions[1]
            k == find_item_command(commands, call.type, call.modifiers, call.special,
                                   TRUE)
            act == commands[k].action
        IN  (k # NULL /\ ItemType(call.item) = TYPE_BUTTON
             /\ act \in {META_ACTION_TOPLEVEL_ACTIVATE, META_ACTION_TOPLEVEL_CLOSE}) =>
                IF toplevel
                THEN /\ Len(executed) = 1
                     /\ executed[1].request =
                            (IF act = META_ACTION_TOPLEVEL_ACTIVATE THEN "activate"
                             ELSE "close")
                ELSE IF commands[k].command = NoString THEN executed = <<>>
                ELSE /\ Len(executed) = 1
                     /\ executed[1].request = "execute"
                     /\ executed[1].command = commands[k].command

\* A release dispatched a toplevel-close that has a command stored while a
\* toplevel existed.
C31_witness ==
    /\ event.name = "release"
    /\ interactions # <<>>
    /\ toplevel
    /\ \E k \in 1 .. Len(commands) :
           /\ commands[k].special = event.arg
           /\ commands[k].action = META_ACTION_TOPLEVEL_CLOSE
           /\ commands[k].command = <<" ", "f">>
    /\ Len(executed) = 1
    /\ executed[1].request = "close"

\* C32: a handler that dispatches a reload command executes the command's
\* string if it has one and leaves context.loop false and context.reload true;
\* one that dispatches an exit command executes its string if it has one and
\* leaves both false; a dispatch of any other action, of no command, or to an
\* item that is not a button leaves both flags as they were.
C32_reload_exit_signalling ==
    [][interactions' # <<>> =>
          LET call == interactions'[1]
              k == find_item_command(commands, call.type, call.modifiers,
                                     call.special, TRUE)
              resolved == ItemType(call.item) = TYPE_BUTTON /\ k # NULL
              ran == IF commands[k].command = NoString THEN executed' = <<>>
                     ELSE /\ Len(executed') = 1
                          /\ executed'[1].request = "execute"
                          /\ executed'[1].command = commands[k].command
          IN  IF resolved /\ commands[k].action = META_ACTION_RELOAD
              THEN ran /\ ~context'.loop /\ context'.reload
              ELSE IF resolved /\ commands[k].action = META_ACTION_EXIT
              THEN ran /\ ~context'.loop /\ ~context'.reload
              ELSE /\ context'.loop = context.loop
                   /\ context'.reload = context.reload]_vars

\* A release dispatched a reload that has a command stored: the command was
\* executed and the flags ask for a reload.
C32_witness ==
    /\ event.name = "release"
    /\ interactions # <<>>
    /\ \E k \in 1 .. Len(commands) :
           /\ commands[k].special = event.arg
           /\ commands[k].action = META_ACTION_RELOAD
           /\ commands[k].command = <<" ", "f">>
    /\ executed = <<[request |-> "execute", command |-> <<" ", "f">>, seat |-> NULL]>>
    /\ ~context.loop
    /\ context.reload

\* The action string begins with the whole of name.
BeginsWith(command, name) ==
    Len(command) >= Len(name) /\ SubSeq(command, 1, Len(name)) = name

\* C33: item_add_command gives an entry a meta action only when the action
\* string begins with a whole meta action name, and then stores the rest of the
\* string, or no command when nothing is left; every other string, one that is
\* only the beginning of a meta action name included, is stored whole with the
\* meta action none.
C33_meta_action_recognition ==
    event.name = "add_command" =>
        LET command == event.x
            entry == commands[last_add.at]
            names == {i \in 1 .. Len(MetaActions) :
                         BeginsWith(command, MetaActions[i].name)}
        IN  IF names # {}
            THEN \E i \in names :
                    /\ entry.action = MetaActions[i].action
                    /\ entry.command =
                           (IF Len(command) = Len(MetaActions[i].name) THEN NoString
                            ELSE SubSeq(command, Len(MetaActions[i].name) + 1,
                                        Len(command)))
            ELSE /\ entry.action = META_ACTION_NONE
                 /\ entry.command = command

\* C34: a render of a button on a hidden bar instance leaves both buffers,
\* current_buffer and the dirty flag as they were; a render of a spacer clears
\* the dirty flag and changes neither the buffers nor what is attached to the
\* surface; a render of a button that is completed clears the dirty flag.
C34_render_skip_paths ==
    [][\A i \in ItemInstances :
           (event'.name = "next_frame" /\ event'.arg = i) =>
               LET button == ItemType(ItemOf(i)) = TYPE_BUTTON
                   hidden == event'.x = 1
                   completed == event'.seat = 1
               IN  /\ button /\ hidden
                          => /\ buffers'[i].pool = buffers[i].pool
                             /\ buffers'[i].current_buffer = buffers[i].current_buffer
                             /\ item_instances'[i].dirty = item_instances[i].dirty
                   /\ ~button
                          => /\ ~item_instances'[i].dirty
                             /\ buffers'[i] = buffers[i]
                   /\ button /\ completed => ~item_instances'[i].dirty
      ]_vars

\* A render on the hidden bar instance has left the button dirty, with a buffer
\* an earlier render painted still current, and the spacer, configured since,
\* has been rendered and is clean.
C34_witness ==
    /\ event = Ev("next_frame", 0, 1, 1)
    /\ item_instances[1].dirty
    /\ buffers[1].current_buffer # NULL
    /\ buffers[1].attached = NULL
    /\ item_instances[3].w = 1
    /\ ~item_instances[3].dirty

\* C35: with a cursor theme that has every cursor, after every pointer event a
\* seat's cursor.type is the pointer cursor exactly when its pointer hovers an
\* item instance of a button, the default cursor when it is over the bar on the
\* spacer or on no item, and none while the pointer is idle: before the first
\* enter, after a leave and after the seat's pointer is released.
C35_cursor_selection ==
    cursors = CursorTypes =>
        \A s \in Seats :
            LET p == pointer[s]
                idle == p.instance = NULL \/ ~seat[s].wl_pointer
            IN  p.cursor =
                    IF idle THEN CURSOR_NONE
                    ELSE IF p.item_instance # NULL
                            /\ ItemType(ItemOf(p.item_instance)) = TYPE_BUTTON
                    THEN CURSOR_POINTER
                    ELSE CURSOR_DEFAULT

\* Seat 1's pointer has moved from the button onto the spacer and shows the
\* default cursor, while seat 2, which hovered the button, has lost its pointer.
C35_witness ==
    /\ event = Ev("motion", 1, 0, 3)
    /\ pointer[1].item_instance = 3
    /\ pointer[1].cursor = CURSOR_DEFAULT
    /\ ~seat[2].wl_pointer
    /\ pointer[2].instance # NULL
    /\ pointer[2].cursor = CURSOR_NONE

\* C36: under every interleaving of the pointer events and pointer releases
\* of the seats, an item instance's indicator is the number of seats whose
\* pointer hovers it.
C36_hover_accounting ==
    \A i \in ItemInstances :
        item_instances[i].indicator =
            Cardinality({s \in Seats : pointer[s].item_instance = i})

\* Seat 2 has lost its pointer while both seats hovered the button, which
\* seat 1 still hovers.
C36_witness ==
    /\ event.name = "capabilities"
    /\ event.seat = 2
    /\ pointer[2].instance # NULL
    /\ pointer[2].x = 1
    /\ pointer[2].item_instance = NULL
    /\ pointer[1].item_instance = 1
    /\ item_instances[1].indicator = 1

C38_scroll_state_across_leave ==
    [][\A s \in Seats :
           LET p == pointer[s]
               kept == /\ pointer'[s].value = p.value
                       /\ pointer'[s].discrete_steps = p.discrete_steps
                       /\ pointer'[s].last_update_time = p.last_update_time
           IN  /\ (event'.name = "leave" /\ event'.seat = s) => kept
               /\ (event'.name = "frame" /\ event'.seat = s /\ p.item_instance = NULL)
                      => kept /\ interactions' = <<>>
               /\ (event'.name = "frame" /\ event'.seat = s /\ p.item_instance # NULL
                       /\ p.discrete_steps > 0)
                      => /\ Len(interactions') = p.discrete_steps
                         /\ \A k \in 1 .. Len(interactions') :
                                /\ interactions'[k].item = ItemOf(p.item_instance)
                                /\ interactions'[k].type = INTERACTION_MOUSE_SCROLL
      ]_vars

\* The pointer has entered the bar over a button with discrete steps that it
\* gathered before it left the bar.
C38_witness ==
    /\ event.name = "enter"
    /\ event.seat = 1
    /\ pointer[1].item_instance = 1
    /\ pointer[1].discrete_steps > 0

\* C39: when item_add_command is called for a tuple that already has a
\* command, the command's meta action and command string afterwards are those
\* the same call leaves in a new command of an empty list: the action string
\* alone decides them, and the list keeps its length.
C39_last_write_wins ==
    (event.name = "add_command" /\ last_add.replaced) =>
        LET bind == event.arg
            entry == commands[last_add.at]
            alone == item_add_command(<<>>, event.x, bind.type, bind.modifiers,
                                      bind.special)
        IN  /\ ExactMatch(entry, bind.type, bind.modifiers, bind.special)
            /\ \E list \in alone :
                   /\ entry.action = list[1].action
                   /\ entry.command = list[1].command

\* "@exit" has replaced "@reload foo" for the left mouse button: the command
\* exits and has no command string.
C39_witness ==
    /\ event.name = "add_command"
    /\ event.x = MetaActions[4].name
    /\ last_add.replaced
    /\ last_add.old = <<" ", "f", "o", "o">>
    /\ commands[last_add.at].action = META_ACTION_EXIT
    /\ commands[last_add.at].command = NoString

\* C40: once a handler has dispatched an exit, context.loop and context.reload
\* stay false under every event handled after it; a reload dispatched after
\* the exit does not set context.reload.
C40_exit_is_final ==
    [][(~context.loop /\ ~context.reload)
           => (~context'.loop /\ ~context'.reload)]_vars

=============================================================================
